---- MODULE Spec2Model ----
(***************************************************************************)
(* VanMoof CAN bus decoder: frame classification, multi-frame CBOR         *)
(* reassembly and heartbeat detection, modelled from the frame loop of     *)
(* main and from analyzer.go.                                              *)
(*                                                                         *)
(* A frame is a record [ID, Data].  ID is the CAN identifier text, kept as *)
(* a sequence of one-character strings so that strings.HasPrefix can be    *)
(* computed.  Data is the sequence of data bytes (0..255).                 *)
(***************************************************************************)
EXTENDS Integers, Sequences, FiniteSets, TLC

VARIABLES
    \* ---- program state of main (var block of main) ----
    cborBuffer,            \* []byte accumulated over START/CONT frames
    lastCanID,             \* ID of the frame that opened the message
    frameCount,            \* frames absorbed into the current message
    cborMessageCount,      \* successful decodes
    heartbeatCount,        \* frames counted as heartbeat
    totalFramesProcessed,  \* frames that passed the ingestion filter
    groupByID,             \* the -group-by-id flag
    \* ---- the record read by the current loop iteration and its results ----
    frame,                 \* frame produced by the parser (NilFrame: none)
    frameType,             \* frameType computed for it ("" if dropped)
    pre,                   \* message state after absorbing, before Decode
    decodeErr,             \* "none" (no Decode call), "nil", "eof", "syntax"
    out,                   \* lines printed by the iteration (as events)
    \* ---- bookkeeping since the most recent START frame ----
    runStarted,            \* a START frame has been processed
    runStartID,            \* ID of the most recent START frame
    runPure,               \* only START/CONT frames since that START
    runPayload,            \* concatenated stripped payloads absorbed
    runConts,              \* CONT frames absorbed
    runRemoved,            \* bytes the loop removed after successful decodes
    runDecoded,            \* bytes of the data items those decodes decoded
    runTrailingEmpty,      \* CONT frames with no payload since the last payload
    runMsgs,               \* messages decoded
    runMsgFrames,          \* frameCount reported with the latest of them
    \* ---- checkIfHeartbeat and analyzeRawFrame exercised on their own ----
    hbIn,                  \* argument frame
    hbOut,                 \* "none" before the call, then "true" / "false"
    arOut,                 \* the call of analyzeRawFrame and what it returned
    \* ---- compare mode (main with -compare, compareFiles) ----
    compareMode,           \* the -compare flag
    exited,                \* how main ended: "no", "os.Exit(1)", "return"
    filePaths,             \* the paths given on the command line
    fileIdx,               \* paths processed by the loop of compareFiles
    fileFrames,            \* map[string][]*FrameInfo: path -> stored frames
    fileRecords,           \* records read by the latest processFile call
    openFailed,            \* paths whose latest os.Open failed
    report,                \* what CompareUnaccountedFrames printed
    \* ---- grouping mode (-group-by-id) ----
    allFrames,             \* []*FrameInfo stored by main
    shown,                 \* what displayGroupedFrames printed
    \* ---- the capture summary at the end of main ----
    minTimestamp,          \* smallest timestamp tracked
    maxTimestamp,          \* largest timestamp tracked
    captureStarted,        \* a timestamp has been parsed
    unaccountedSeen,       \* bookkeeping: frames classified UNACCOUNTED
    summary                \* what "Display capture summary" printed

vars == <<cborBuffer, lastCanID, frameCount, cborMessageCount, heartbeatCount,
          totalFramesProcessed, groupByID, frame, frameType, pre,
          decodeErr, out, runStarted, runStartID, runPure, runPayload,
          runConts, runRemoved, runDecoded, runTrailingEmpty, runMsgs,
          runMsgFrames, hbIn, hbOut, arOut, compareMode, exited, filePaths,
          fileIdx,
          fileFrames, fileRecords, openFailed, report, allFrames, shown,
          minTimestamp, maxTimestamp, captureStarted, unaccountedSeen,
          summary>>

cmpVars == <<compareMode, exited, filePaths, fileIdx, fileFrames, fileRecords,
             openFailed, report>>

grpVars == <<allFrames, shown>>

sumVars == <<minTimestamp, maxTimestamp, captureStarted, unaccountedSeen,
             summary>>

mainVars == <<cborBuffer, lastCanID, frameCount, cborMessageCount,
              heartbeatCount, totalFramesProcessed, groupByID, frame,
              frameType, pre, decodeErr, out, runStarted, runStartID,
              runPure, runPayload, runConts, runRemoved, runDecoded,
              runTrailingEmpty, runMsgs, runMsgFrames>>

(***************************************************************************)
(* Bounds of the model.                                                    *)
(***************************************************************************)
\* largest number of payload bytes (data bytes after the header byte) in a
\* generated frame
MaxPayload == 2
\* frames that pass the ingestion filter in one run
MaxFrames == 2

(***************************************************************************)
(* Inputs.  Header bytes cover the four kinds of frame; payload bytes are  *)
(* read by the codec.                                                      *)
(*    header 0xA0  START            header 0x00  heartbeat candidate       *)
(*    header 0x18  CONTINUATION     header 0x82  data frame (0x8x)         *)
(*    payload 0x00  CBOR unsigned 0, a complete item                       *)
(*    payload 0x82  CBOR head of an array of two items                     *)
(*    payload 0xFF  CBOR break, malformed at the start of an item; it is   *)
(*                  generated as a payload of its own                      *)
(***************************************************************************)
Headers == {0, 24, 130, 160}
PayloadBytes == {0, 130}

\* header & 0xF0
AndF0(b) == b - (b % 16)

ID_HB    == <<"0", "1", "1", "1", "1", "0">>
ID_OTHER == <<"1", "0", "0">>
IDs == {ID_HB, ID_OTHER}

RECURSIVE SeqsUpTo(_, _)
SeqsUpTo(S, n) ==
    IF n = 0 THEN {<<>>}
    ELSE LET shorter == SeqsUpTo(S, n - 1)
         IN  shorter \cup {Append(s, b) : s \in shorter, b \in S}

\* the parser returned no frame (a parse error, or a line holding no data)
NilFrame == [ID |-> <<>>, Data |-> <<>>]

\* START and CONTINUATION frames: a header byte followed by codec bytes
CborFrames ==
    {[ID |-> id, Data |-> <<h>> \o p] :
        id \in IDs, h \in {h \in Headers : AndF0(h) \in {16, 160}},
        p \in SeqsUpTo(PayloadBytes, MaxPayload) \cup {<<255>>}}

\* the other frames: the reassembly never reads their payload, and the
\* heartbeat check only asks whether all of it is zero; the longest one has
\* seven data bytes
RawFrames ==
    {[ID |-> id, Data |-> <<h>> \o p] :
        id \in IDs, h \in {h \in Headers : AndF0(h) \notin {16, 160}},
        p \in {<<>>, <<0>>, <<255>>, <<0, 0>>, <<0, 0, 0, 0, 0, 0>>}}

DataFrames == CborFrames \cup RawFrames

\* frames whose data is empty
EmptyFrames == {[ID |-> id, Data |-> <<>>] : id \in IDs}

Records == DataFrames \cup EmptyFrames \cup {NilFrame}

\* float64 values: not-a-number, or the number v
FloatOf(v) == [nan |-> FALSE, v |-> v]
FloatNaN == [nan |-> TRUE, v |-> 0]

\* x == y and x < y on float64: false when either side is not a number
FloatEq(x, y) == ~x.nan /\ ~y.nan /\ x.v = y.v
FloatLess(x, y) == ~x.nan /\ ~y.nan /\ x.v < y.v

(***************************************************************************)
(* Frame classification (main, "Determine frame type").                    *)
(***************************************************************************)
\* faulty variant: tests the high bit instead of the high nibble
isStartFrameHighBit(header) == header >= 128

isStartFrame(header) == AndF0(header) = 160

\* faulty variant: compares the whole header byte
isContinuationExact(header) == header = 16

isContinuation(header) == AndF0(header) = 16

\* strings.HasPrefix
HasPrefix(s, prefix) ==
    /\ Len(s) >= Len(prefix)
    /\ SubSeq(s, 1, Len(prefix)) = prefix

HB_PREFIX == <<"0", "1", "1", "1", "1">>

\* faulty variant: only the first data byte is tested
allZeroFromFirstOnly(data, i) ==
    IF i > Len(data) THEN TRUE ELSE data[i] = 0

\* the range loop of checkIfHeartbeat: the first non-zero byte returns false
RECURSIVE allZeroFrom(_, _)
allZeroFrom(data, i) ==
    IF i > Len(data) THEN TRUE
    ELSE IF data[i] # 0 THEN FALSE
    ELSE allZeroFrom(data, i + 1)

\* faulty variant: the ID prefix is not tested
checkIfHeartbeatAnyID(f) == allZeroFrom(f.Data, 1)

checkIfHeartbeat(f) ==
    IF ~HasPrefix(f.ID, HB_PREFIX) THEN FALSE
    ELSE allZeroFrom(f.Data, 1)

ID_TELEMETRY == <<"1", "4", "6", "0", "9", "4", "6", "0">>
ID_STATUS    == <<"1", "8", "2", "0", "9", "8", "2", "0">>

\* the range loop of analyzeRawFrame: allZero starts true, the first
\* non-zero byte sets it to false and breaks
RECURSIVE allZeroBreak(_, _)
allZeroBreak(data, i) ==
    IF i > Len(data) THEN TRUE
    ELSE IF data[i] # 0 THEN FALSE
    ELSE allZeroBreak(data, i + 1)

\* faulty variant: isHeartbeat is set where the heartbeat line is printed
analyzeRawFrameVerboseOnly(f, verbose) ==
    [isHeartbeat |-> /\ f.ID # ID_TELEMETRY
                     /\ HasPrefix(f.ID, HB_PREFIX)
                     /\ allZeroBreak(f.Data, 1)
                     /\ verbose,
     printed |-> <<>>]

\* analyzeRawFrame: the value returned and the lines printed; the switch
\* takes the first case that matches
analyzeRawFrame(f, verbose) ==
    IF f.ID = ID_TELEMETRY
    THEN [isHeartbeat |-> FALSE,
          printed |-> IF verbose /\ Len(f.Data) >= 4
                      THEN <<"Telemetry?">> ELSE <<>>]
    ELSE IF HasPrefix(f.ID, HB_PREFIX)
    THEN IF allZeroBreak(f.Data, 1)
         THEN [isHeartbeat |-> TRUE,
               printed |-> IF verbose THEN <<"Heartbeat/Keep-alive">>
                           ELSE <<>>]
         ELSE [isHeartbeat |-> FALSE, printed |-> <<>>]
    ELSE IF f.ID = ID_STATUS
    THEN [isHeartbeat |-> FALSE,
          printed |-> IF verbose /\ Len(f.Data) >= 1
                      THEN <<"Status byte">> ELSE <<>>]
    ELSE [isHeartbeat |-> FALSE, printed |-> <<>>]

\* frameType / isCBOR / isHeartbeat of a frame with non-empty data
Classify(f) ==
    LET header == f.Data[1] IN
    IF isStartFrame(header)
    THEN [frameType |-> "START", isCBOR |-> TRUE, isHeartbeat |-> FALSE]
    ELSE IF isContinuation(header)
    THEN [frameType |-> "CONT", isCBOR |-> TRUE, isHeartbeat |-> FALSE]
    ELSE IF checkIfHeartbeat(f)
    THEN [frameType |-> "HEARTBEAT", isCBOR |-> FALSE, isHeartbeat |-> TRUE]
    ELSE [frameType |-> "UNACCOUNTED", isCBOR |-> FALSE, isHeartbeat |-> FALSE]

(***************************************************************************)
(* The payload codec: cbor.NewDecoder(bytes.NewReader(buf)).Decode(&item)  *)
(* of github.com/fxamacker/cbor/v2.  Decode first checks that the bytes    *)
(* start with one well-formed data item (RFC 8949); an item cut short by   *)
(* the end of the input is io.ErrUnexpectedEOF, anything else a syntax     *)
(* error.  Offsets are 1-based; a result > 1 is the offset after the item. *)
(* Not modelled, and not reachable with the alphabet above: indefinite-    *)
(* length strings, arrays and maps (no case of wellformedItems takes       *)
(* them), arguments wider than 31 bits, the nesting and element-count      *)
(* limits, invalid UTF-8 in text strings, unhashable map keys.             *)
(***************************************************************************)
ErrEOF    == 0
ErrSyntax == 0 - 1

ArgBytes(ai) ==
    CASE ai = 24 -> 1 [] ai = 25 -> 2 [] ai = 26 -> 4 [] ai = 27 -> 8
      [] OTHER -> 0

RECURSIVE BigEndian(_, _, _)
BigEndian(buf, i, n) ==
    IF n = 0 THEN 0 ELSE BigEndian(buf, i, n - 1) * 256 + buf[i + n - 1]

\* head of a data item at offset i: major type t, argument val, next offset
wellformedHead(buf, i) ==
    LET bad(e) == [err |-> e, t |-> 0, val |-> 0, indef |-> FALSE, next |-> i]
    IN
    IF i > Len(buf) THEN bad(ErrEOF)
    ELSE
      LET t  == buf[i] \div 32
          ai == buf[i] % 32
          n  == ArgBytes(ai)
      IN
      IF ai < 24
      THEN [err |-> 1, t |-> t, val |-> ai, indef |-> FALSE, next |-> i + 1]
      ELSE IF ai <= 27
      THEN IF Len(buf) - i < n THEN bad(ErrEOF)
           ELSE LET val == BigEndian(buf, i + 1, n) IN
                IF t = 7 /\ ai = 24 /\ val < 32 THEN bad(ErrSyntax)
                ELSE [err |-> 1, t |-> t, val |-> val, indef |-> FALSE,
                      next |-> i + 1 + n]
      ELSE IF ai = 31
      THEN IF t \in {0, 1, 6, 7} THEN bad(ErrSyntax)
           ELSE [err |-> 1, t |-> t, val |-> 0, indef |-> TRUE,
                 next |-> i + 1]
      ELSE bad(ErrSyntax)

\* n consecutive data items starting at offset i.  The library descends
\* recursively into arrays, maps and tags; here the items still owed are
\* counted instead: an array of val items owes val more, a map 2 * val, a
\* tag one.
RECURSIVE wellformedItems(_, _, _)
wellformedItems(buf, i, n) ==
    IF n = 0 THEN i
    ELSE
      LET h == wellformedHead(buf, i) IN
      IF h.err <= 0 THEN h.err
      ELSE
        CASE h.t \in {2, 3} /\ ~h.indef ->
               IF Len(buf) - (h.next - 1) < h.val THEN ErrEOF
               ELSE wellformedItems(buf, h.next + h.val, n - 1)
          [] h.t = 4 /\ ~h.indef ->
               wellformedItems(buf, h.next, n - 1 + h.val)
          [] h.t = 5 /\ ~h.indef ->
               wellformedItems(buf, h.next, n - 1 + 2 * h.val)
          [] h.t = 6 ->
               wellformedItems(buf, h.next, n)
          [] h.t \in {0, 1, 7} ->
               wellformedItems(buf, h.next, n - 1)

\* length in bytes of the data item at the front of buf, or an error code
ItemLen(buf) ==
    LET e == wellformedItems(buf, 1, 1) IN IF e <= 0 THEN e ELSE e - 1

\* the error returned by dec.Decode(&item)
Decode(buf) ==
    LET n == ItemLen(buf) IN
    IF n = ErrEOF THEN "eof" ELSE IF n = ErrSyntax THEN "syntax" ELSE "nil"

\* The Decoder does not read byte by byte: each read asks the reader for at
\* least minRead bytes, so a bytes.Reader holding no more than that is
\* drained by the first read, whatever the length of the decoded item.
minRead == 512

\* variant: what a reader advanced by exactly the decoded item would hold
ReaderLenExact(buf) == Len(buf) - ItemLen(buf)

\* bufReader.Len() after a successful Decode of an item that lies within
\* the first read
ReaderLen(buf) ==
    IF Len(buf) <= minRead THEN 0 ELSE Len(buf) - minRead

(***************************************************************************)
(* Reassembly.  The message state is the triple cborBuffer, lastCanID,     *)
(* frameCount, passed around as a record [buf, id, fc].                    *)
(***************************************************************************)
Msg == [buf |-> cborBuffer, id |-> lastCanID, fc |-> frameCount]

Payload(f) == Tail(f.Data)

\* faulty variant: the earlier buffer is kept
AbsorbStartKeep(m, f) ==
    [buf |-> m.buf \o Payload(f), id |-> f.ID, fc |-> 1]

\* if isStartFrame { ... }
AbsorbStart(m, f) ==
    [buf |-> Payload(f), id |-> f.ID, fc |-> 1]

\* faulty variant: the message takes the ID of each frame it absorbs
AbsorbContOwnID(m, f) ==
    [buf |-> m.buf \o Payload(f), id |-> f.ID, fc |-> m.fc + 1]

\* faulty variant: frameCount is not incremented
AbsorbContNoCount(m, f) ==
    [buf |-> m.buf \o Payload(f), id |-> m.id, fc |-> m.fc]

\* else if isContinuation { ... }
AbsorbCont(m, f) ==
    [buf |-> m.buf \o Payload(f), id |-> m.id, fc |-> m.fc + 1]

\* faulty variant: the count is one short
DiscardEventsOffByOne(m) ==
    IF Len(m.buf) > 1
    THEN <<[ev |-> "discard", n |-> Len(m.buf) - 1]>>
    ELSE <<>>

\* the "Discarding incomplete buffer (%d bytes)" line of the START branch;
\* the bytes printed after the count are the buffer itself
DiscardEvents(m) ==
    IF Len(m.buf) > 0
    THEN <<[ev |-> "discard", n |-> Len(m.buf)]>>
    ELSE <<>>

\* faulty variant: a failed decode drops the buffer
TryDecodeDropOnError(buf) ==
    IF Len(buf) = 0 THEN [err |-> "none", consumed |-> 0, rest |-> buf]
    ELSE IF Decode(buf) = "nil"
    THEN LET n == Len(buf) - ReaderLen(buf) IN
         [err |-> "nil", consumed |-> n, rest |-> SubSeq(buf, n + 1, Len(buf))]
    ELSE [err |-> Decode(buf), consumed |-> 0, rest |-> <<>>]

\* faulty variant: the consumed bytes are not removed
TryDecodeKeep(buf) ==
    IF Len(buf) = 0 THEN [err |-> "none", consumed |-> 0, rest |-> buf]
    ELSE IF Decode(buf) = "nil"
    THEN [err |-> "nil", consumed |-> Len(buf) - ReaderLen(buf), rest |-> buf]
    ELSE [err |-> Decode(buf), consumed |-> 0, rest |-> buf]

\* "Try to decode CBOR from the accumulated buffer": one Decode call when
\* the buffer is not empty.  consumed is len(cborBuffer) - bufReader.Len().
TryDecode(buf) ==
    IF Len(buf) = 0 THEN [err |-> "none", consumed |-> 0, rest |-> buf]
    ELSE IF Decode(buf) = "nil"
    THEN LET n == Len(buf) - ReaderLen(buf) IN
         [err |-> "nil", consumed |-> n, rest |-> SubSeq(buf, n + 1, Len(buf))]
    ELSE [err |-> Decode(buf), consumed |-> 0, rest |-> buf]

\* faulty variant: the message is reported as a single frame
MessageEventsOneFrame(m, d) ==
    IF d.err = "nil"
    THEN <<[ev |-> "message", canId |-> m.id, frames |-> 1,
            bytes |-> d.consumed, raw |-> SubSeq(m.buf, 1, d.consumed)]>>
    ELSE <<>>

\* the "COMPLETE CBOR MESSAGE" / "Raw CBOR" lines
MessageEvents(m, d) ==
    IF d.err = "nil"
    THEN <<[ev |-> "message", canId |-> m.id, frames |-> m.fc,
            bytes |-> d.consumed, raw |-> SubSeq(m.buf, 1, d.consumed)]>>
    ELSE <<>>

\* bookkeeping since the most recent START frame
RunAfter(kind, f, m, d) ==
    LET decoded == IF d.err = "nil" THEN 1 ELSE 0
        item == IF d.err = "nil" THEN ItemLen(m.buf) ELSE 0
    IN
    IF kind = "START"
    THEN /\ runStarted' = TRUE
         /\ runStartID' = f.ID
         /\ runPure' = TRUE
         /\ runPayload' = Payload(f)
         /\ runConts' = 0
         /\ runRemoved' = d.consumed
         /\ runDecoded' = item
         /\ runTrailingEmpty' = 0
         /\ runMsgs' = decoded
         /\ runMsgFrames' = IF decoded = 1 THEN m.fc ELSE 0
    ELSE IF kind = "CONT"
    THEN /\ runPayload' = runPayload \o Payload(f)
         /\ runConts' = runConts + 1
         /\ runRemoved' = runRemoved + d.consumed
         /\ runDecoded' = runDecoded + item
         /\ runTrailingEmpty' =
                IF Len(Payload(f)) = 0 THEN runTrailingEmpty + 1 ELSE 0
         /\ runMsgs' = runMsgs + decoded
         /\ runMsgFrames' = IF decoded = 1 THEN m.fc ELSE runMsgFrames
         /\ UNCHANGED <<runStarted, runStartID, runPure>>
    ELSE /\ runPure' = FALSE
         /\ UNCHANGED <<runStarted, runStartID, runPayload, runConts, runRemoved,
                        runDecoded, runTrailingEmpty, runMsgs, runMsgFrames>>

(***************************************************************************)
(* The state of compare mode and of the grouped display before either has  *)
(* run.                                                                    *)
(***************************************************************************)
\* analyzeRawFrame not called
NotCalled ==
    [called |-> FALSE, verbose |-> FALSE, isHeartbeat |-> FALSE,
     printed |-> <<>>]

\* a map with no keys
EmptyMap == [k \in {} |-> 0]

\* nothing reported yet
NoReport ==
    [done |-> FALSE, files |-> <<>>, patterns |-> EmptyMap, common |-> <<>>,
     unique |-> EmptyMap, partial |-> <<>>, totalPatterns |-> 0,
     commonCount |-> 0, uniqueCount |-> 0, partialCount |-> 0]

\* nothing displayed yet
NotShown ==
    [done |-> FALSE, hideAccounted |-> FALSE, hideUnaccounted |-> FALSE,
     groups |-> <<>>]

CmpIdle ==
    /\ compareMode = FALSE
    /\ exited = "no"
    /\ filePaths = <<>>
    /\ fileIdx = 0
    /\ fileFrames = EmptyMap
    /\ fileRecords = <<>>
    /\ openFailed = {}
    /\ report = NoReport

GrpIdle ==
    /\ allFrames = <<>>
    /\ shown = NotShown

\* var minTimestamp float64 = float64(^uint64(0) >> 1), about 9.2e18: a
\* number above every timestamp of the model
MaxFloat == FloatOf(2147483647)

\* no summary displayed yet
NoSummary ==
    [done |-> FALSE, printed |-> FALSE, cborMessages |-> 0, heartbeats |-> 0,
     unaccountedFrames |-> 0, totalFrames |-> 0]

SumIdle ==
    /\ minTimestamp = MaxFloat
    /\ maxTimestamp = FloatOf(0)
    /\ captureStarted = FALSE
    /\ unaccountedSeen = 0
    /\ summary = NoSummary

(***************************************************************************)
(* The loop body of main.                                                  *)
(***************************************************************************)
InitMain ==
    /\ cborBuffer = <<>>
    /\ lastCanID = <<>>
    /\ frameCount = 0
    /\ cborMessageCount = 0
    /\ heartbeatCount = 0
    /\ totalFramesProcessed = 0
    /\ frame = NilFrame
    /\ frameType = ""
    /\ pre = [buf |-> <<>>, id |-> <<>>, fc |-> 0]
    /\ decodeErr = "none"
    /\ out = <<>>
    /\ runStarted = FALSE
    /\ runStartID = <<>>
    /\ runPure = TRUE
    /\ runPayload = <<>>
    /\ runConts = 0
    /\ runRemoved = 0
    /\ runDecoded = 0
    /\ runTrailingEmpty = 0
    /\ runMsgs = 0
    /\ runMsgFrames = 0

Init ==
    /\ InitMain
    /\ groupByID \in BOOLEAN
    /\ hbIn = NilFrame
    /\ hbOut = "none"
    /\ arOut = NotCalled
    /\ SumIdle
    /\ CmpIdle
    /\ GrpIdle

\* faulty variant: the dropped record is counted as processed
SkipRecordCounted(r) ==
    /\ Len(r.Data) = 0
    /\ frame' = r
    /\ frameType' = ""
    /\ pre' = Msg
    /\ decodeErr' = "none"
    /\ out' = <<>>
    /\ totalFramesProcessed' = totalFramesProcessed + 1
    /\ UNCHANGED <<sumVars, cborBuffer, lastCanID, frameCount, cborMessageCount,
                   heartbeatCount, groupByID,
                   runStarted, runStartID, runPure, runPayload, runConts,
                   runRemoved, runDecoded, runTrailingEmpty, runMsgs,
                   runMsgFrames, hbIn, hbOut, arOut, cmpVars, grpVars>>

\* if frame == nil || len(frame.Data) == 0 { continue }, and the continue
\* after a parse error
SkipRecord(r) ==
    /\ Len(r.Data) = 0
    /\ frame' = r
    /\ frameType' = ""
    /\ pre' = Msg
    /\ decodeErr' = "none"
    /\ out' = <<>>
    /\ UNCHANGED <<sumVars, cborBuffer, lastCanID, frameCount, cborMessageCount,
                   heartbeatCount, totalFramesProcessed, groupByID,
                   runStarted, runStartID, runPure, runPayload, runConts,
                   runRemoved, runDecoded, runTrailingEmpty, runMsgs,
                   runMsgFrames, hbIn, hbOut, arOut, cmpVars, grpVars>>

\* one iteration without -group-by-id: "VANMOOF FRAMING LOGIC" and the
\* decode attempt that follows it
ProcessFrame(f) ==
    /\ ~groupByID
    /\ Len(f.Data) > 0
    /\ totalFramesProcessed < MaxFrames
    /\ LET header == f.Data[1]
           c == Classify(f)
       IN
       /\ totalFramesProcessed' = totalFramesProcessed + 1
       /\ frame' = f
       /\ frameType' = c.frameType
          /\ IF isStartFrame(header) \/ isContinuation(header)
          THEN LET m == IF isStartFrame(header) THEN AbsorbStart(Msg, f)
                        ELSE AbsorbCont(Msg, f)
                   d == TryDecode(m.buf)
                   absorbed ==
                       IF isStartFrame(header)
                       THEN DiscardEvents(Msg)
                            \o <<[ev |-> "new", bytes |-> m.buf]>>
                       ELSE <<[ev |-> "append", frames |-> m.fc,
                               bytes |-> m.buf]>>
               IN
               /\ pre' = m
               /\ decodeErr' = d.err
               /\ cborBuffer' = d.rest
               /\ lastCanID' = m.id
               /\ frameCount' = m.fc
               /\ cborMessageCount' =
                      cborMessageCount + (IF d.err = "nil" THEN 1 ELSE 0)
               /\ out' = absorbed \o MessageEvents(m, d)
               /\ RunAfter(IF isStartFrame(header) THEN "START" ELSE "CONT",
                           f, m, d)
               /\ UNCHANGED heartbeatCount
          ELSE /\ pre' = Msg
               /\ decodeErr' = "none"
               /\ \E showVerbose \in BOOLEAN :
                     heartbeatCount' =
                         heartbeatCount
                         + (IF analyzeRawFrame(f, showVerbose).isHeartbeat
                            THEN 1 ELSE 0)
               /\ out' = <<>>
               /\ RunAfter("RAW", f, Msg, TryDecode(<<>>))
               /\ UNCHANGED <<cborBuffer, lastCanID, frameCount,
                              cborMessageCount>>
    /\ UNCHANGED <<sumVars, groupByID, hbIn, hbOut, arOut, cmpVars, grpVars>>

\* what an iteration with -group-by-id does to the state of main, the list
\* of stored frames apart: the same reassembly, nothing printed
GroupedBody(f) ==
    /\ Len(f.Data) > 0
    /\ LET header == f.Data[1]
           c == Classify(f)
           m == IF isStartFrame(header) THEN AbsorbStart(Msg, f)
                ELSE IF isContinuation(header) THEN AbsorbCont(Msg, f)
                ELSE Msg
           d == IF c.isCBOR THEN TryDecode(m.buf) ELSE TryDecode(<<>>)
       IN
       /\ totalFramesProcessed' = totalFramesProcessed + 1
       /\ frame' = f
       /\ frameType' = c.frameType
          /\ pre' = m
       /\ decodeErr' = d.err
       /\ cborBuffer' = IF c.isCBOR THEN d.rest ELSE m.buf
       /\ lastCanID' = m.id
       /\ frameCount' = m.fc
       /\ cborMessageCount' =
              cborMessageCount + (IF d.err = "nil" THEN 1 ELSE 0)
       /\ heartbeatCount' =
              heartbeatCount + (IF c.isHeartbeat THEN 1 ELSE 0)
       /\ out' = <<>>
       /\ RunAfter(IF isStartFrame(header) THEN "START"
                   ELSE IF isContinuation(header) THEN "CONT" ELSE "RAW",
                   f, m, d)

\* one iteration with -group-by-id; the list of stored frames is not kept
\* in this specification (StoreFrame keeps it)
ProcessFrameGrouped(f) ==
    /\ groupByID
    /\ totalFramesProcessed < MaxFrames
    /\ GroupedBody(f)
    /\ UNCHANGED <<sumVars, groupByID, hbIn, hbOut, arOut, cmpVars, grpVars>>

Next ==
    \/ \E r \in Records : SkipRecord(r)
    \/ \E f \in DataFrames : ProcessFrame(f)
    \/ \E f \in DataFrames : ProcessFrameGrouped(f)

Spec == Init /\ [][Next]_vars

(***************************************************************************)
(* checkIfHeartbeat called on its own, on frames that need not have passed *)
(* the ingestion filter (empty data included).                             *)
(***************************************************************************)
\* longest data of a frame handed to checkIfHeartbeat
MaxHBData == 3

HBIDs ==
    {ID_HB, ID_OTHER, ID_TELEMETRY, ID_STATUS, HB_PREFIX, <<>>,
     <<"0", "1", "1", "1">>,
     <<"0", "1", "1", "1", "0", "1">>,
     <<"1", "0", "1", "1", "1", "1">>}

HBFrames == [ID : HBIDs, Data : SeqsUpTo({0, 24, 255}, MaxHBData)]

InitHB ==
    /\ InitMain
    /\ groupByID = FALSE
    /\ hbIn \in HBFrames
    /\ hbOut = "none"
    /\ arOut = NotCalled
    /\ SumIdle
    /\ CmpIdle
    /\ GrpIdle

CallCheckIfHeartbeat ==
    /\ hbOut = "none"
    /\ hbOut' = IF checkIfHeartbeat(hbIn) THEN "true" ELSE "false"
    /\ UNCHANGED <<sumVars, hbIn, arOut, mainVars, cmpVars, grpVars>>

\* analyzeRawFrame(frame, verbose) on the same frame
CallAnalyzeRawFrame ==
    /\ ~arOut.called
    /\ \E verbose \in BOOLEAN :
          LET r == analyzeRawFrame(hbIn, verbose) IN
          arOut' = [called |-> TRUE, verbose |-> verbose,
                    isHeartbeat |-> r.isHeartbeat, printed |-> r.printed]
    /\ UNCHANGED <<sumVars, hbIn, hbOut, mainVars, cmpVars, grpVars>>

NextHB == CallCheckIfHeartbeat

SpecHB == InitHB /\ [][NextHB]_vars

\* both heartbeat tests called on the same frame, in either order
NextAnalyze ==
    \/ CallCheckIfHeartbeat
    \/ CallAnalyzeRawFrame

SpecAnalyze == InitHB /\ [][NextAnalyze]_vars

(***************************************************************************)
(* Text.  Strings are sequences of one-character strings; Go compares      *)
(* strings byte by byte, so the characters used are listed in ASCII order. *)
(***************************************************************************)
Chars == <<"0", "1", "2", "3", "4", "5", "6", "7", "8", "9", ":",
           "A", "B", "C", "D", "E", "F", "a", "b", "c">>

CharRank(c) == CHOOSE i \in 1..Len(Chars) : Chars[i] = c

\* a < b on strings
TextLess(a, b) ==
    \E k \in 1..(Len(b)) :
        /\ \A i \in 1..(k - 1) : i <= Len(a) /\ a[i] = b[i]
        /\ \/ k > Len(a)
           \/ k <= Len(a) /\ CharRank(a[k]) < CharRank(b[k])

HexDigits == <<"0", "1", "2", "3", "4", "5", "6", "7", "8", "9",
               "A", "B", "C", "D", "E", "F">>

\* fmt.Sprintf("%02X", b) of one byte
HexByte(b) == <<HexDigits[(b \div 16) + 1], HexDigits[(b % 16) + 1]>>

\* fmt.Sprintf("%X", data) of a byte slice: two upper-case digits per byte
HexOf(data) ==
    LET hex[i \in 0..Len(data)] ==
            IF i = 0 THEN <<>> ELSE hex[i - 1] \o HexByte(data[i])
    IN  hex[Len(data)]

\* the orders in which a range over a map with key set S can visit it
Perms(S) ==
    {p \in [1..Cardinality(S) -> S] :
        \A i, j \in 1..Cardinality(S) : p[i] = p[j] => i = j}

(***************************************************************************)
(* Ordering.  sort.Slice and sort.Strings run an insertion sort on a slice *)
(* of fewer than 12 elements, with the less function they are given.       *)
(***************************************************************************)
\* faulty variant: only the IDs are compared
frameLessByID(a, b) == TextLess(a.ID, b.ID)

\* the less function of sortFramesByID
frameLess(a, b) ==
    IF a.ID = b.ID
    THEN IF a.Header = b.Header
         THEN TextLess(a.DataHex, b.DataHex)
         ELSE a.Header < b.Header
    ELSE TextLess(a.ID, b.ID)

\* the less function of "Sort by timestamp within each group"
groupLess(a, b) ==
    IF FloatEq(a.TimestampFloat, b.TimestampFloat)
    THEN a.SequenceNum < b.SequenceNum
    ELSE FloatLess(a.TimestampFloat, b.TimestampFloat)

\* the less function of each sort of the program
Less(by, a, b) ==
    CASE by = "sort.Strings" -> TextLess(a, b)
      [] by = "sortFramesByID" -> frameLess(a, b)
      [] by = "displayGroupedFrames" -> groupLess(a, b)

\* the inner loop of the insertion sort: x, placed after t, is swapped
\* towards the front while it is less than the element before it
InsertLast(t, x, by) ==
    LET stops == {j \in 1..Len(t) : ~Less(by, x, t[j])}
        pos == IF stops = {} THEN 0
               ELSE CHOOSE j \in stops : \A k \in stops : k <= j
    IN  SubSeq(t, 1, pos) \o <<x>> \o SubSeq(t, pos + 1, Len(t))

insertionSort(s, by) ==
    LET sorted[i \in 0..Len(s)] ==
            IF i = 0 THEN <<>> ELSE InsertLast(sorted[i - 1], s[i], by)
    IN  sorted[Len(s)]

(***************************************************************************)
(* Compare mode: compareFiles, processFile and CompareUnaccountedFrames.   *)
(* A source's content is the sequence of records its lines parse to, in    *)
(* candump format (parseCandumpLine sets no timestamp).                    *)
(***************************************************************************)
\* frames stored over all sources of one comparison
MaxRecords == 3

PATH_A == <<"a">>
PATH_B == <<"b">>
PATH_C == <<"c">>

\* the command lines of the model; main admits compare mode with two or
\* more paths, which may repeat
FilePathLists ==
    {<<PATH_A, PATH_B>>, <<PATH_A, PATH_A>>, <<PATH_C, PATH_A, PATH_B>>}

\* faulty variant: one path is enough
MinFilesOne == 2 - 1

\* the number of paths below which main refuses compare mode
MinFiles == 2

\* command lines with fewer than two paths
ShortPathLists == {<<>>, <<PATH_A>>}

\* the records of a source to compare: three unaccounted shapes (two IDs;
\* under one ID two headers, the second with two data), a heartbeat and a
\* START frame (lines that yield no frame are among IngestRecords)
CmpRecords ==
    {[ID |-> ID_OTHER, Data |-> <<130>>],
     [ID |-> ID_OTHER, Data |-> <<130, 0>>],
     [ID |-> ID_HB, Data |-> <<0, 255>>],
     [ID |-> ID_HB, Data |-> <<0>>],
     [ID |-> ID_OTHER, Data |-> <<160, 0>>]}

\* faulty variant: the header is stored as its high nibble
FrameInfoOfNibble(f, ts, seq) ==
    LET c == Classify(f) IN
    [Frame |-> f, TimestampFloat |-> ts, Header |-> AndF0(f.Data[1]),
     FrameType |-> c.frameType, IsHeartbeat |-> c.isHeartbeat,
     IsCBOR |-> c.isCBOR, SequenceNum |-> seq]

\* the FrameInfo appended for a frame with data
FrameInfoOf(f, ts, seq) ==
    LET c == Classify(f) IN
    [Frame |-> f, TimestampFloat |-> ts, Header |-> f.Data[1],
     FrameType |-> c.frameType, IsHeartbeat |-> c.isHeartbeat,
     IsCBOR |-> c.isCBOR, SequenceNum |-> seq]

\* faulty variant: the sequence number counts the records read, dropped
\* ones included
processFileLoopLineNum(records) ==
    LET allFramesAt[i \in 0..Len(records)] ==
            IF i = 0 THEN <<>>
            ELSE IF Len(records[i].Data) = 0 THEN allFramesAt[i - 1]
            ELSE Append(allFramesAt[i - 1],
                        FrameInfoOf(records[i], FloatOf(0), i))
    IN  allFramesAt[Len(records)]

\* the scanner loop of processFile over the records of an opened file
processFileLoop(records) ==
    LET allFramesAt[i \in 0..Len(records)] ==
            IF i = 0 THEN <<>>
            ELSE IF Len(records[i].Data) = 0 THEN allFramesAt[i - 1]
            ELSE Append(allFramesAt[i - 1],
                        FrameInfoOf(records[i], FloatOf(0),
                                    Len(allFramesAt[i - 1]) + 1))
    IN  allFramesAt[Len(records)]

\* processFile: nil when the file cannot be opened
processFile(opens, records) ==
    IF ~opens THEN <<>> ELSE processFileLoop(records)

\* faulty variant: a source without frames is left out of the map
StoreFramesSkipEmpty(ff, filePath, frames) ==
    IF frames = <<>> THEN ff
    ELSE [p \in DOMAIN ff \cup {filePath} |->
             IF p = filePath THEN frames ELSE ff[p]]

\* fileFrames[filePath] = frames
StoreFrames(ff, filePath, frames) ==
    [p \in DOMAIN ff \cup {filePath} |->
        IF p = filePath THEN frames ELSE ff[p]]

\* faulty variant: the key leaves the data out
KeyOfNoData(fi) ==
    fi.Frame.ID \o <<":">> \o HexByte(fi.Header)

\* fmt.Sprintf("%s:%02X:%s", f.Frame.ID, f.Header, dataHex)
KeyOf(fi) ==
    fi.Frame.ID \o <<":">> \o HexByte(fi.Header) \o <<":">>
        \o HexOf(fi.Frame.Data)

\* m[k]++ on a map[string]int
Increment(m, k) ==
    [x \in DOMAIN m \cup {k} |->
        IF x = k THEN (IF k \in DOMAIN m THEN m[k] + 1 ELSE 1) ELSE m[x]]

\* faulty variant: a pattern's occurrences are restarted by each new source
FoldFrameLastSource(patterns, filename, fi) ==
    IF fi.IsCBOR \/ fi.IsHeartbeat THEN patterns
    ELSE
      LET key == KeyOf(fi)
          occ == IF key \in DOMAIN patterns /\
                    filename \in DOMAIN patterns[key].Occurrences
                 THEN patterns[key].Occurrences ELSE EmptyMap
      IN  [k \in DOMAIN patterns \cup {key} |->
              IF k = key
              THEN [ID |-> fi.Frame.ID, Header |-> fi.Header,
                    DataHex |-> HexOf(fi.Frame.Data),
                    Occurrences |-> Increment(occ, filename)]
              ELSE patterns[k]]

\* faulty variant: heartbeat frames are folded too
FoldFrameWithHeartbeats(patterns, filename, fi) ==
    IF fi.IsCBOR THEN patterns
    ELSE
      LET key == KeyOf(fi)
          occ == IF key \in DOMAIN patterns
                 THEN patterns[key].Occurrences ELSE EmptyMap
      IN  [k \in DOMAIN patterns \cup {key} |->
              IF k = key
              THEN [ID |-> fi.Frame.ID, Header |-> fi.Header,
                    DataHex |-> HexOf(fi.Frame.Data),
                    Occurrences |-> Increment(occ, filename)]
              ELSE patterns[k]]

\* the body of the inner loop of the fold: skip CBOR and heartbeat frames,
\* create the pattern of the key if it is new, count the occurrence
FoldFrame(patterns, filename, fi) ==
    IF fi.IsCBOR \/ fi.IsHeartbeat THEN patterns
    ELSE
      LET dataHex == HexOf(fi.Frame.Data)
          key == KeyOf(fi)
          created ==
              IF key \in DOMAIN patterns THEN patterns[key]
              ELSE [ID |-> fi.Frame.ID, Header |-> fi.Header,
                    DataHex |-> dataHex, Occurrences |-> EmptyMap]
      IN  [k \in DOMAIN patterns \cup {key} |->
              IF k = key
              THEN [created EXCEPT
                       !.Occurrences = Increment(created.Occurrences, filename)]
              ELSE patterns[k]]

\* the fold over a sequence of <<filename, FrameInfo>> pairs
FoldPairs(pairs) ==
    LET framePatternsAt[i \in 0..Len(pairs)] ==
            IF i = 0 THEN EmptyMap
            ELSE FoldFrame(framePatternsAt[i - 1], pairs[i][1], pairs[i][2])
    IN  framePatternsAt[Len(pairs)]

\* the frames of the sources, source after source in the order given
PairsInOrder(ff, order) ==
    LET pairsAt[i \in 0..Len(order)] ==
            IF i = 0 THEN <<>>
            ELSE pairsAt[i - 1] \o
                 [j \in 1..Len(ff[order[i]]) |-> <<order[i], ff[order[i]][j]>>]
    IN  pairsAt[Len(order)]

\* for filename, frames := range fileFrames { for _, f := range frames ... }
FoldSources(ff, order) == FoldPairs(PairsInOrder(ff, order))

\* faulty variant: only the CBOR frames are left out of the count
FileSummaryNotCBOR(ff, fn) ==
    [fn |-> fn,
     unaccounted |->
         Cardinality({i \in 1..Len(ff[fn]) : ~ff[fn][i].IsCBOR}),
     total |-> Len(ff[fn])]

\* the "Files analyzed" line of a source
FileSummary(ff, fn) ==
    [fn |-> fn,
     unaccounted |->
         Cardinality({i \in 1..Len(ff[fn]) :
                         ~ff[fn][i].IsCBOR /\ ~ff[fn][i].IsHeartbeat}),
     total |-> Len(ff[fn])]

\* faulty variant: the test for a single source comes first
CategoryOfUniqueFirst(pattern, nFiles) ==
    IF Cardinality(DOMAIN pattern.Occurrences) = 1 THEN "unique"
    ELSE IF Cardinality(DOMAIN pattern.Occurrences) = nFiles THEN "common"
    ELSE "partial"

\* faulty variant: patterns of some but not all sources are not kept
CategoryOfNoPartial(pattern, nFiles) ==
    IF Cardinality(DOMAIN pattern.Occurrences) = nFiles THEN "common"
    ELSE IF Cardinality(DOMAIN pattern.Occurrences) = 1 THEN "unique"
    ELSE "dropped"

\* the if / else if / else of "Categorize frames"
CategoryOf(pattern, nFiles) ==
    IF Cardinality(DOMAIN pattern.Occurrences) = nFiles THEN "common"
    ELSE IF Cardinality(DOMAIN pattern.Occurrences) = 1 THEN "unique"
    ELSE "partial"

sortFramesByID(frames) == insertionSort(frames, "sortFramesByID")

\* countUniqueFrames
countUniqueFrames(uniqueFrames) ==
    LET fns == DOMAIN uniqueFrames
        sumOver[S \in SUBSET fns] ==
            IF S = {} THEN 0
            ELSE LET fn == CHOOSE x \in S : TRUE
                 IN  Len(uniqueFrames[fn]) + sumOver[S \ {fn}]
    IN  sumOver[fns]

\* the slice a range over the map of patterns builds, for each order in
\* which it can visit the keys
VisitOrders(framePatterns) ==
    {[i \in 1..Cardinality(DOMAIN framePatterns) |-> framePatterns[order[i]]] :
        order \in Perms(DOMAIN framePatterns)}

\* the patterns of a category, in the order visited
Category(visited, category, nFiles) ==
    LET inCategory(p) == CategoryOf(p, nFiles) = category
    IN  SelectSeq(visited, inCategory)

\* uniqueFrames[fn]: the patterns seen in one source only, that source fn
UniqueTo(visited, fn, nFiles) ==
    LET seenIn(p) == fn \in DOMAIN p.Occurrences
    IN  SelectSeq(Category(visited, "unique", nFiles), seenIn)

\* what CompareUnaccountedFrames prints, from the folded patterns, the
\* sorted file names and the patterns in the order visited
CompareReport(ff, framePatterns, filenames, visited) ==
    LET commonToAll == Category(visited, "common", Len(filenames))
        uniqueFrames ==
            [fn \in DOMAIN ff |-> UniqueTo(visited, fn, Len(filenames))]
        partialFrames == Category(visited, "partial", Len(filenames))
    IN  [done |-> TRUE,
         files |-> [i \in 1..Len(filenames) |-> FileSummary(ff, filenames[i])],
         patterns |-> framePatterns,
         common |-> sortFramesByID(commonToAll),
         unique |-> [fn \in DOMAIN ff |-> sortFramesByID(uniqueFrames[fn])],
         partial |-> sortFramesByID(partialFrames),
         totalPatterns |-> Cardinality(DOMAIN framePatterns),
         commonCount |-> Len(commonToAll),
         uniqueCount |-> countUniqueFrames(uniqueFrames),
         partialCount |-> Len(partialFrames)]

\* frames stored so far over all sources
StoredTotal ==
    LET srcs == DOMAIN fileFrames
        sumOver[S \in SUBSET srcs] ==
            IF S = {} THEN 0
            ELSE LET s == CHOOSE x \in S : TRUE
                 IN  Len(fileFrames[s]) + sumOver[S \ {s}]
    IN  sumOver[srcs]

InitCmp ==
    /\ InitMain
    /\ groupByID = FALSE
    /\ hbIn = NilFrame
    /\ hbOut = "none"
    /\ arOut = NotCalled
    /\ SumIdle
    /\ GrpIdle
    /\ compareMode = TRUE
    /\ exited = "no"
    /\ filePaths \in FilePathLists \cup ShortPathLists
    /\ fileIdx = 0
    /\ fileFrames = EmptyMap
    /\ fileRecords = <<>>
    /\ openFailed = {}
    /\ report = NoReport

\* if len(files) < 2 { ... os.Exit(1) }
UsageError ==
    /\ compareMode
    /\ exited = "no"
    /\ Len(filePaths) < MinFiles
    /\ exited' = "os.Exit(1)"
    /\ UNCHANGED <<sumVars, compareMode, filePaths, fileIdx, fileFrames, fileRecords,
                   openFailed, report, mainVars, hbIn, hbOut, arOut, grpVars>>

\* frames stored for the sources other than filePath
StoredElsewhere(filePath) ==
    StoredTotal - (IF filePath \in DOMAIN fileFrames
                   THEN Len(fileFrames[filePath]) ELSE 0)

\* one iteration of the loop of compareFiles: processFile on the next path,
\* which opens or not and holds the given records
ProcessFile(opens, records) ==
    /\ compareMode
    /\ Len(filePaths) >= MinFiles
    /\ fileIdx < Len(filePaths)
    /\ LET filePath == filePaths[fileIdx + 1]
           frames == processFile(opens, records)
       IN
       /\ fileFrames' = StoreFrames(fileFrames, filePath, frames)
       /\ fileRecords' = IF opens THEN records ELSE <<>>
       /\ openFailed' = IF opens THEN openFailed \ {filePath}
                        ELSE openFailed \cup {filePath}
       /\ fileIdx' = fileIdx + 1
    /\ UNCHANGED <<sumVars, compareMode, exited, filePaths, report, mainVars, hbIn,
                   hbOut, arOut, grpVars>>

\* the call of CompareUnaccountedFrames that ends compareFiles; each of its
\* range loops over a map visits the keys in an order of its own
CompareUnaccountedFrames ==
    /\ compareMode
    /\ Len(filePaths) >= MinFiles
    /\ fileIdx = Len(filePaths)
    /\ ~report.done
    /\ exited' = "return"
    /\ \E framePatterns \in
             {FoldSources(fileFrames, order) :
                 order \in Perms(DOMAIN fileFrames)},
          filenames \in
             {insertionSort(order, "sort.Strings") :
                 order \in Perms(DOMAIN fileFrames)} :
          \E visited \in VisitOrders(framePatterns) :
             report' = CompareReport(fileFrames, framePatterns, filenames,
                                     visited)
    /\ UNCHANGED <<sumVars, compareMode, filePaths, fileIdx, fileFrames, fileRecords,
                   openFailed, mainVars, hbIn, hbOut, arOut, grpVars>>

\* the contents of a file of at most k records, for each k
FileContents == [k \in 0..MaxRecords |-> SeqsUpTo(CmpRecords, k)]

NextCmp ==
    \/ \E records \in
             FileContents[IF fileIdx < Len(filePaths)
                          THEN MaxRecords
                               - StoredElsewhere(filePaths[fileIdx + 1])
                          ELSE 0] :
          ProcessFile(TRUE, records)
    \/ ProcessFile(FALSE, <<>>)
    \/ CompareUnaccountedFrames
    \/ UsageError

SpecCmp == InitCmp /\ [][NextCmp]_vars

(***************************************************************************)
(* Grouping mode: main with -group-by-id stores a FrameInfo per processed  *)
(* frame and calls displayGroupedFrames after the last line.  The input is *)
(* in CSV format, the format whose lines carry a timestamp (microseconds). *)
(***************************************************************************)
\* frames stored in one run
MaxStored == 3

MicrosPerSecond == 1000000

\* the timestamp fields of the model
TimestampTexts == {<<>>, <<"0">>, <<"1", "0", "0", "0", "0", "0", "0">>,
                   <<"N", "a", "N">>, <<"x">>}

\* strconv.ParseFloat(text, 64) on these fields; it accepts "NaN"
ParseFloat(text) ==
    CASE text = <<"0">> -> [err |-> FALSE, ts |-> FloatOf(0)]
      [] text = <<"1", "0", "0", "0", "0", "0", "0">> ->
             [err |-> FALSE, ts |-> FloatOf(1000000)]
      [] text = <<"N", "a", "N">> -> [err |-> FALSE, ts |-> FloatNaN]
      [] OTHER -> [err |-> TRUE, ts |-> FloatOf(0)]

\* x / d on float64, for the multiples of d of the model
FloatDiv(x, d) == IF x.nan THEN FloatNaN ELSE FloatOf(x.v \div d)

\* "Track capture timestamps": the value of timestampFloat
timestampFloatOf(text, isCSV) ==
    IF text = <<>> THEN FloatOf(0)
    ELSE LET parsed == ParseFloat(text) IN
         IF parsed.err THEN FloatOf(0)
         ELSE IF isCSV THEN FloatDiv(parsed.ts, MicrosPerSecond)
         ELSE parsed.ts

\* the frames of a grouped run: a heartbeat, a START frame and unaccounted
\* frames, over two IDs
GrpFrames ==
    {[ID |-> ID_HB, Data |-> <<0>>],
     [ID |-> ID_HB, Data |-> <<130>>],
     [ID |-> ID_OTHER, Data |-> <<160>>],
     [ID |-> ID_OTHER, Data |-> <<130>>]}

\* the frames that pass "Filter frames based on flags"
FilterFrames(frameList, hideAccounted, hideUnaccounted) ==
    LET kept(f) ==
            /\ ~(hideAccounted /\ (f.IsCBOR \/ f.IsHeartbeat))
            /\ ~(hideUnaccounted /\ ~f.IsCBOR /\ ~f.IsHeartbeat)
    IN  SelectSeq(frameList, kept)

\* displayGroupedFrames, given the order in which the range over the map of
\* groups visits the IDs: the groups it prints, each with its frames
displayGroupedFrames(frames, hideAccounted, hideUnaccounted, idOrder) ==
    LET ids == insertionSort(idOrder, "sort.Strings")
        grouped(id) == LET hasID(f) == f.Frame.ID = id
                       IN  SelectSeq(frames, hasID)
        filteredFrames(id) ==
            FilterFrames(insertionSort(grouped(id), "displayGroupedFrames"),
                         hideAccounted, hideUnaccounted)
        printedAt[i \in 0..Len(ids)] ==
            IF i = 0 THEN <<>>
            ELSE IF Len(filteredFrames(ids[i])) = 0 THEN printedAt[i - 1]
            ELSE Append(printedAt[i - 1],
                        [id |-> ids[i], frames |-> filteredFrames(ids[i])])
    IN  printedAt[Len(ids)]

InitGrp ==
    /\ InitMain
    /\ groupByID = TRUE
    /\ hbIn = NilFrame
    /\ hbOut = "none"
    /\ arOut = NotCalled
    /\ SumIdle
    /\ CmpIdle
    /\ GrpIdle

\* one iteration of main with -group-by-id on a line that holds a frame
\* with data: the frame is stored, then processed without display
StoreFrame(f, timestamp) ==
    /\ groupByID
    /\ ~shown.done
    /\ Len(allFrames) < MaxStored
    /\ GroupedBody(f)
    /\ allFrames' =
           Append(allFrames,
                  FrameInfoOf(f, timestampFloatOf(timestamp, TRUE),
                              totalFramesProcessed + 1))
    /\ UNCHANGED <<sumVars, groupByID, hbIn, hbOut, arOut, cmpVars, shown>>

\* "Display grouped output if requested", after the last line; the two
\* view flags are read here only
DisplayGroupedFrames ==
    /\ groupByID
    /\ Len(allFrames) > 0
    /\ ~shown.done
    /\ \E hideAccounted \in BOOLEAN, hideUnaccounted \in BOOLEAN :
          \E idOrder \in Perms({allFrames[i].Frame.ID : i \in 1..Len(allFrames)}) :
             shown' = [done |-> TRUE, hideAccounted |-> hideAccounted,
                       hideUnaccounted |-> hideUnaccounted,
                       groups |-> displayGroupedFrames(allFrames, hideAccounted,
                                                       hideUnaccounted, idOrder)]
    /\ UNCHANGED <<sumVars, mainVars, hbIn, hbOut, arOut, cmpVars, allFrames>>

NextGrp ==
    \/ \E r \in EmptyFrames \cup {NilFrame} : ~shown.done /\ SkipRecord(r)
    \/ \E f \in GrpFrames, timestamp \in TimestampTexts : StoreFrame(f, timestamp)
    \/ DisplayGroupedFrames

SpecGrp == InitGrp /\ [][NextGrp]_vars

(***************************************************************************)
(* Ingestion: the lines main reads from standard input with -group-by-id   *)
(* and the lines processFile reads from each path in compare mode, lines   *)
(* that yield no frame or a frame without data included ("100#" in candump *)
(* format has an ID and no data).                                          *)
(***************************************************************************)
\* the timestamp field of the CSV lines read here
TS_ZERO == <<"0">>

\* the records of a file: an unaccounted frame, a heartbeat, a CONTINUATION
\* frame under the heartbeat ID, a line without frame and a frame without
\* data (START frames are among GrpFrames and CmpRecords)
IngestRecords ==
    {[ID |-> ID_OTHER, Data |-> <<130>>],
     [ID |-> ID_HB, Data |-> <<0>>],
     [ID |-> ID_HB, Data |-> <<24>>],
     NilFrame,
     [ID |-> ID_OTHER, Data |-> <<>>]}

IngestContents == [k \in 0..MaxRecords |-> SeqsUpTo(IngestRecords, k)]

InitIngest == InitGrp \/ InitCmp

NextIngest ==
    \/ \E r \in EmptyFrames \cup {NilFrame} :
          groupByID /\ ~shown.done /\ SkipRecord(r)
    \/ \E f \in GrpFrames : StoreFrame(f, TS_ZERO)
    \/ \E records \in
             IngestContents[IF fileIdx < Len(filePaths)
                            THEN MaxRecords
                                 - StoredElsewhere(filePaths[fileIdx + 1])
                            ELSE 0] :
          ProcessFile(TRUE, records)
    \/ ProcessFile(FALSE, <<>>)

SpecIngest == InitIngest /\ [][NextIngest]_vars

(***************************************************************************)
(* Properties.                                                             *)
(***************************************************************************)
\* the loop iteration that led to this state processed a frame
Processed == frameType # ""

HighNibble(b) == b \div 16

AllZero(data) == \A i \in 1..Len(data) : data[i] = 0

StartsWith01111(id) ==
    /\ Len(id) >= 5
    /\ id[1] = "0" /\ id[2] = "1" /\ id[3] = "1" /\ id[4] = "1" /\ id[5] = "1"

Events(kind) == {i \in 1..Len(out) : out[i].ev = kind}

\* C1: a frame with data is START iff its header's high nibble is 0xA,
\* else CONTINUATION iff it is 0x1, else HEARTBEAT iff the ID starts with
\* "01111" and all data bytes are zero, else UNACCOUNTED; it gets exactly
\* one of the four kinds.
C1_Classification ==
    Processed =>
        LET hn == HighNibble(frame.Data[1])
            hb == StartsWith01111(frame.ID) /\ AllZero(frame.Data)
        IN
        /\ frameType \in {"START", "CONT", "HEARTBEAT", "UNACCOUNTED"}
        /\ (frameType = "START") <=> (hn = 10)
        /\ (frameType = "CONT") <=> (hn # 10 /\ hn = 1)
        /\ (frameType = "HEARTBEAT") <=> (hn \notin {10, 1} /\ hb)
        /\ (frameType = "UNACCOUNTED") <=> (hn \notin {10, 1} /\ ~hb)

\* a frame that fell through both header tests and matched the heartbeat test
C1_Witness ==
    /\ frameType = "HEARTBEAT"
    /\ Len(frame.Data) > 1

\* C2: after a START frame is absorbed (before the decode attempt) the
\* buffer is the frame's data after the header byte, the frame count is 1
\* and the originating ID is the frame's ID, whatever the state was before;
\* the decode attempt leaves count and ID as they are and nothing of the
\* earlier buffer survives it.
C2_StartResets ==
    [][frameType' = "START" =>
          /\ pre'.buf = Tail(frame'.Data)
          /\ pre'.fc = 1
          /\ pre'.id = frame'.ID
          /\ frameCount' = 1
          /\ lastCanID' = frame'.ID
          /\ Len(cborBuffer') <= Len(Tail(frame'.Data))]_vars

\* a START frame processed while bytes of an earlier message were buffered
C2_Witness ==
    /\ frameType = "START"
    /\ totalFramesProcessed >= 2
    /\ pre.buf = Tail(frame.Data)
    /\ Len(pre.buf) > 0
    /\ Events("discard") # {}

\* C3: a CONTINUATION frame appends its data after the header byte to the
\* end of the buffer and adds exactly 1 to the frame count, also when the
\* buffer is empty and no START frame was seen; the frame counts as
\* processed.
C3_ContinuationAppends ==
    [][frameType' = "CONT" =>
          /\ pre'.buf = cborBuffer \o Tail(frame'.Data)
          /\ pre'.fc = frameCount + 1
          /\ frameCount' = frameCount + 1
          /\ pre'.id = lastCanID
          /\ totalFramesProcessed' = totalFramesProcessed + 1]_vars

\* a CONTINUATION frame with payload processed before any START frame
C3_Witness ==
    /\ frameType = "CONT"
    /\ ~runStarted
    /\ frameCount = 1
    /\ Len(pre.buf) > 0
    /\ pre.buf = Tail(frame.Data)

\* C4: after a START or CONTINUATION frame one decode is attempted iff the
\* buffer is not empty; when it succeeds on a data item of k bytes, the
\* message printed carries the first k bytes of the buffer and the buffer
\* becomes the buffer without its first k bytes.
C4_DecodeKeepsSuffix ==
    frameType \in {"START", "CONT"} =>
        /\ (decodeErr # "none") <=> (Len(pre.buf) > 0)
        /\ decodeErr = "nil" =>
              LET k == ItemLen(pre.buf) IN
              /\ cborBuffer = SubSeq(pre.buf, k + 1, Len(pre.buf))
              /\ ~groupByID =>
                    /\ Cardinality(Events("message")) = 1
                    /\ \A i \in Events("message") :
                          out[i].raw = SubSeq(pre.buf, 1, k)

\* C5: when the decode attempt fails, the buffer, the frame count and the
\* originating ID stay as they were after absorbing the frame, no message
\* is counted or printed, and nothing but the absorb line is printed.
C5_FailedDecodeKeepsState ==
    [][(frameType' \in {"START", "CONT"} /\ decodeErr' \in {"eof", "syntax"}) =>
          /\ cborBuffer' = pre'.buf
          /\ frameCount' = pre'.fc
          /\ lastCanID' = pre'.id
          /\ cborMessageCount' = cborMessageCount
          /\ \A i \in 1..Len(out') : out'[i].ev \in {"discard", "new", "append"}
          /\ totalFramesProcessed' = totalFramesProcessed + 1]_vars

\* a failed decode of an incomplete item that stays buffered
C5_Witness ==
    /\ frameType = "CONT"
    /\ runStarted
    /\ decodeErr = "eof"
    /\ Len(cborBuffer) >= 2
    /\ cborBuffer = pre.buf
    /\ cborMessageCount = 0

\* the frames since the most recent START frame are that START frame and
\* CONTINUATION frames only, and their payloads concatenate to exactly one
\* data item
ExactlyOneValue ==
    /\ runStarted
    /\ runPure
    /\ Len(runPayload) > 0
    /\ ItemLen(runPayload) = Len(runPayload)

\* C6 as stated: for one START followed by CONTINUATIONs whose payloads
\* form exactly one value, one message is emitted, with frameCount equal
\* to 1 + the number of CONTINUATION frames, and the buffer is empty.
C6_AsStated ==
    ExactlyOneValue =>
        /\ runMsgs = 1
        /\ runMsgFrames = 1 + runConts
        /\ cborBuffer = <<>>

\* C6 amended: ... one message is emitted, with frameCount equal to the
\* number of frames up to the one that completes the value, that is 1 +
\* the number of CONTINUATION frames less the CONTINUATION frames without
\* payload that follow the completing frame; the buffer is empty.
C6_OneMessage ==
    ExactlyOneValue =>
        /\ runMsgs = 1
        /\ runMsgFrames = 1 + runConts - runTrailingEmpty
        /\ cborBuffer = <<>>

\* a value spread over a START and a CONTINUATION frame
C6_Witness ==
    /\ ExactlyOneValue
    /\ frameType = "CONT"
    /\ runConts = 1
    /\ runMsgFrames = 2
    /\ decodeErr = "nil"

\* C7: the buffer's length is the sum of the payload lengths absorbed
\* since the most recent START frame (or since the beginning) less the
\* bytes of the data items decoded since then.
C7_BufferLength ==
    Len(cborBuffer) = Len(runPayload) - runDecoded

\* The same equation with the bytes the loop removed (its bytesConsumed) in
\* place of the bytes of the decoded items.
BufferLengthAsRemoved ==
    Len(cborBuffer) = Len(runPayload) - runRemoved

\* C8: a START frame that arrives while the buffer is not empty replaces
\* the buffer by its own payload; the count it reports as discarded is the
\* earlier buffer's length, and without -group-by-id it reports one.
C8_DiscardCount ==
    [][(frameType' = "START" /\ Len(cborBuffer) > 0) =>
          /\ pre'.buf = Tail(frame'.Data)
          /\ pre'.fc = 1
          /\ \A i \in 1..Len(out') :
                out'[i].ev = "discard" => out'[i].n = Len(cborBuffer)
          /\ ~groupByID =>
                \E i \in 1..Len(out') : out'[i].ev = "discard"]_vars

\* a START frame that discarded two buffered bytes
C8_Witness ==
    /\ frameType = "START"
    /\ \E i \in Events("discard") : out[i].n = 2

\* C9: a frame whose header's high nibble is neither 0xA nor 0x1 leaves
\* the buffer, the frame count and the originating ID as they are and no
\* decode is attempted.
C9_RawFrameKeepsMessage ==
    [][(Len(frame'.Data) > 0 /\ HighNibble(frame'.Data[1]) \notin {10, 1}) =>
          /\ frameType' \in {"HEARTBEAT", "UNACCOUNTED"}
          /\ cborBuffer' = cborBuffer
          /\ frameCount' = frameCount
          /\ lastCanID' = lastCanID
          /\ decodeErr' = "none"]_vars

\* a data frame processed while a message is buffered
C9_Witness ==
    /\ frameType \in {"HEARTBEAT", "UNACCOUNTED"}
    /\ Len(cborBuffer) > 0
    /\ frameCount >= 1

\* C10: checkIfHeartbeat returns true iff the ID starts with "01111" and
\* every data byte is zero (empty data included), and it changes neither
\* its argument nor the program's state.
C10_HeartbeatPredicate ==
    [][/\ hbOut' = IF StartsWith01111(hbIn.ID) /\ AllZero(hbIn.Data)
                   THEN "true" ELSE "false"
       /\ hbIn' = hbIn
       /\ UNCHANGED mainVars]_vars

\* the call returned true for a frame with the ID prefix and no data
C10_Witness ==
    /\ hbOut = "true"
    /\ hbIn.Data = <<>>
    /\ hbIn.ID = ID_HB

\* the data bytes of the frame read last that are not zero
NonZeroAt == {i \in 1..Len(frame.Data) : frame.Data[i] # 0}

\* C11 as stated: a frame whose ID starts with "01111" and whose data is
\* all zero, of any length from 0 to 7, is classified HEARTBEAT; the same
\* frame with any single byte changed to a non-zero value is classified
\* UNACCOUNTED.
C11_AsStated ==
    (StartsWith01111(frame.ID) /\ Len(frame.Data) <= 7) =>
        /\ NonZeroAt = {} => frameType = "HEARTBEAT"
        /\ Cardinality(NonZeroAt) = 1 => frameType = "UNACCOUNTED"

\* C11 amended: a frame whose ID starts with "01111" and whose data is all
\* zero and not empty is classified HEARTBEAT (with empty data it is dropped
\* before classification and gets no kind); the same frame with a single
\* byte changed to a non-zero value is classified UNACCOUNTED, unless the
\* changed byte is the first one and its new high nibble is 0xA (START) or
\* 0x1 (CONTINUATION).
C11_HeartbeatFlip ==
    StartsWith01111(frame.ID) =>
        /\ (NonZeroAt = {} /\ Len(frame.Data) > 0) => frameType = "HEARTBEAT"
        /\ (NonZeroAt = {} /\ Len(frame.Data) = 0) => frameType = ""
        /\ Cardinality(NonZeroAt) = 1 =>
              LET hn == HighNibble(frame.Data[1]) IN
              /\ hn \notin {10, 1} => frameType = "UNACCOUNTED"
              /\ hn = 10 => frameType = "START"
              /\ hn = 1 => frameType = "CONT"

\* an all-zero frame with the ID prefix whose last byte was made non-zero
C11_Witness ==
    /\ StartsWith01111(frame.ID)
    /\ Len(frame.Data) >= 2
    /\ NonZeroAt = {Len(frame.Data)}
    /\ frameType = "UNACCOUNTED"

(***************************************************************************)
(* Properties of compare mode and of the grouped display.                  *)
(***************************************************************************)
\* the sources of the comparison
Sources == DOMAIN fileFrames

\* sum of the values of a function with a finite domain
SumOf(f) ==
    LET sumOver[S \in SUBSET DOMAIN f] ==
            IF S = {} THEN 0
            ELSE LET x == CHOOSE y \in S : TRUE
                 IN  f[x] + sumOver[S \ {x}]
    IN  sumOver[DOMAIN f]

\* a stored frame that is neither START, CONTINUATION nor heartbeat, told
\* from its ID and data
Unaccounted(fi) ==
    /\ HighNibble(fi.Frame.Data[1]) \notin {10, 1}
    /\ ~(StartsWith01111(fi.Frame.ID) /\ AllZero(fi.Frame.Data))

UnaccountedAt(s) ==
    {i \in 1..Len(fileFrames[s]) : Unaccounted(fileFrames[s][i])}

\* the unaccounted frames of all sources
UnaccountedFrames ==
    UNION {{fileFrames[s][i] : i \in UnaccountedAt(s)} : s \in Sources}

\* ID, header byte and data bytes of a stored frame
ShapeOf(fi) == <<fi.Frame.ID, fi.Frame.Data[1], fi.Frame.Data>>

Shapes == {ShapeOf(fi) : fi \in UnaccountedFrames}

\* the unaccounted frames of source s that have pattern p's ID, header and data
CountIn(s, p) ==
    Cardinality({i \in UnaccountedAt(s) :
                    /\ fileFrames[s][i].Frame.ID = p.ID
                    /\ fileFrames[s][i].Frame.Data[1] = p.Header
                    /\ HexOf(fileFrames[s][i].Frame.Data) = p.DataHex})

\* the sources in which pattern p was observed
ObservedIn(p) == {s \in Sources : CountIn(s, p) >= 1}

Patterns == {report.patterns[k] : k \in DOMAIN report.patterns}

\* how often pattern p is listed in list L
Times(L, p) == Cardinality({i \in 1..Len(L) : L[i] = p})

\* the lists of the report
ReportLists ==
    {report.common, report.partial} \cup {report.unique[s] : s \in Sources}

\* C12: after the fold, for every pattern p and source s, Occurrences[s] of
\* p is the number of frames of s that are neither CBOR nor heartbeat and
\* have p's ID, header and data; s is a key of p's occurrence map only if
\* that number is at least 1; START, CONTINUATION and HEARTBEAT frames
\* contribute to no pattern, and every unaccounted frame to one.
C12_Occurrences ==
    report.done =>
        /\ \A p \in Patterns :
              /\ DOMAIN p.Occurrences # {}
              /\ DOMAIN p.Occurrences \subseteq Sources
              /\ \A s \in Sources :
                    /\ (s \in DOMAIN p.Occurrences) <=> (CountIn(s, p) >= 1)
                    /\ s \in DOMAIN p.Occurrences =>
                          p.Occurrences[s] = CountIn(s, p)
        /\ \A fi \in UnaccountedFrames :
              \E p \in Patterns :
                 /\ p.ID = fi.Frame.ID
                 /\ p.Header = fi.Frame.Data[1]
                 /\ p.DataHex = HexOf(fi.Frame.Data)

\* a pattern counted twice in a source that also holds a frame that is not
\* unaccounted
C12_Witness ==
    /\ report.done
    /\ \E p \in Patterns, s \in Sources :
          /\ s \in DOMAIN p.Occurrences
          /\ p.Occurrences[s] = 2
          /\ Len(fileFrames[s]) = 3

\* C13: two unaccounted frames, of one source or of two, are folded into
\* the same pattern entry iff their ID text, header byte and data bytes are
\* equal: their keys are equal iff their shapes are, the entry of the key
\* carries the shape, and there are as many entries as shapes.
C13_SameEntry ==
    report.done =>
        /\ \A f \in UnaccountedFrames, g \in UnaccountedFrames :
              (KeyOf(f) = KeyOf(g)) <=> (ShapeOf(f) = ShapeOf(g))
        /\ \A f \in UnaccountedFrames :
              /\ KeyOf(f) \in DOMAIN report.patterns
              /\ report.patterns[KeyOf(f)].ID = f.Frame.ID
              /\ report.patterns[KeyOf(f)].Header = f.Frame.Data[1]
              /\ report.patterns[KeyOf(f)].DataHex = HexOf(f.Frame.Data)
        /\ Cardinality(DOMAIN report.patterns) = Cardinality(Shapes)

\* a shape seen in two sources, and a second shape with the same ID and
\* header but other data
C13_Witness ==
    /\ report.done
    /\ \E p \in Patterns, q \in Patterns :
          /\ Cardinality(DOMAIN p.Occurrences) = 2
          /\ q # p
          /\ q.ID = p.ID
          /\ q.Header = p.Header

\* C14 as stated: every pattern is in exactly one category: common iff
\* observed in every source, unique (under that source) iff observed in
\* exactly one source, partial iff observed in more than one but fewer than
\* all sources.
C14_AsStated ==
    report.done =>
        \A p \in Patterns :
            LET n == Cardinality(ObservedIn(p))
                N == Cardinality(Sources)
            IN
            /\ Times(report.common, p) >= 1 <=> n = N
            /\ \A s \in Sources :
                  Times(report.unique[s], p) >= 1 <=> ObservedIn(p) = {s}
            /\ Times(report.partial, p) >= 1 <=> (n > 1 /\ n < N)
            /\ Times(report.common, p) + Times(report.partial, p)
                  + SumOf([s \in Sources |-> Times(report.unique[s], p)]) = 1

\* C14 amended: every pattern is in exactly one category: common iff
\* observed in every source; unique (under that source) iff observed in
\* exactly one source and there is more than one source; partial iff
\* observed in more than one but fewer than all sources.
C14_Categories ==
    report.done =>
        \A p \in Patterns :
            LET n == Cardinality(ObservedIn(p))
                N == Cardinality(Sources)
            IN
            /\ Times(report.common, p) >= 1 <=> n = N
            /\ \A s \in Sources :
                  Times(report.unique[s], p) >= 1 <=>
                      (ObservedIn(p) = {s} /\ N > 1)
            /\ Times(report.partial, p) >= 1 <=> (n > 1 /\ n < N)
            /\ Times(report.common, p) + Times(report.partial, p)
                  + SumOf([s \in Sources |-> Times(report.unique[s], p)]) = 1

\* three sources, a shape in a and b but not in c: it is in partial, with
\* occurrence keys a and b, and in no other list
C14_Witness ==
    /\ report.done
    /\ Sources = {PATH_A, PATH_B, PATH_C}
    /\ \E p \in Patterns :
          /\ DOMAIN p.Occurrences = {PATH_A, PATH_B}
          /\ Times(report.partial, p) = 1
          /\ Times(report.common, p) = 0
          /\ \A s \in Sources : Times(report.unique[s], p) = 0

\* C15: len(common) + the sum over the sources of len(unique[source]) +
\* len(partial) is the number of distinct (ID, header, data) shapes among
\* the unaccounted frames of all sources, which is the total the summary
\* reports, and the three counts of the summary add up to it.
C15_Totals ==
    report.done =>
        /\ Len(report.common) + Len(report.partial)
              + SumOf([s \in Sources |-> Len(report.unique[s])])
              = Cardinality(Shapes)
        /\ report.totalPatterns = Cardinality(Shapes)
        /\ report.commonCount + report.uniqueCount + report.partialCount
              = report.totalPatterns

\* three shapes over three categories' worth of sources: one partial, one
\* unique
C15_Witness ==
    /\ report.done
    /\ report.totalPatterns >= 2
    /\ Len(report.partial) >= 1
    /\ report.uniqueCount >= 1

\* p comes before q: by ID as text, then by header as a number, then by
\* data hex as text
Before(p, q) ==
    \/ TextLess(p.ID, q.ID)
    \/ p.ID = q.ID /\ p.Header < q.Header
    \/ p.ID = q.ID /\ p.Header = q.Header /\ TextLess(p.DataHex, q.DataHex)

\* C16: in the common list, the partial list and each per-source unique
\* list the patterns are in ascending order of ID text, then header
\* number, then data hex text, and any two distinct patterns are ordered
\* one way or the other, so that the set of patterns fixes the output.
C16_Sorted ==
    report.done =>
        /\ \A L \in ReportLists :
              \A i \in 1..Len(L), j \in 1..Len(L) :
                 i < j => Before(L[i], L[j])
        /\ \A p \in Patterns, q \in Patterns :
              p # q => (Before(p, q) \/ Before(q, p))

\* a list of three patterns: two IDs, and two data under one ID and header
C16_Witness ==
    /\ report.done
    /\ \E L \in ReportLists :
          /\ Len(L) = 3
          /\ L[1].ID # L[2].ID
          /\ L[2].ID = L[3].ID
          /\ L[2].Header = L[3].Header

\* every frame of every source, tagged with its source
AllPairs ==
    UNION {{<<s, fileFrames[s][i]>> : i \in 1..Len(fileFrames[s])} :
              s \in Sources}

\* C17: the report (patterns, occurrence counts, categories, output order)
\* is the one every order of folding the sources gives, with every order
\* of visiting file names and patterns, that is the one a second run
\* gives; and folding the frames of the sources in any interleaving gives
\* the same patterns and counts.
C17_OrderIndependent ==
    report.done =>
        /\ \A order \in Perms(Sources) :
              /\ FoldSources(fileFrames, order) = report.patterns
              /\ \A i \in 1..Len(report.files) :
                    report.files[i].fn = insertionSort(order, "sort.Strings")[i]
        /\ \A visited \in VisitOrders(report.patterns) :
              CompareReport(fileFrames, report.patterns,
                            [i \in 1..Len(report.files) |-> report.files[i].fn],
                            visited) = report
        /\ \A pairs \in Perms(AllPairs) : FoldPairs(pairs) = report.patterns

\* two sources with frames, a pattern seen in both and a second pattern
C17_Witness ==
    /\ report.done
    /\ Cardinality(DOMAIN report.patterns) >= 2
    /\ \E p \in Patterns : Cardinality(DOMAIN p.Occurrences) >= 2
    /\ Cardinality(AllPairs) = 3

\* a frame must not come after one that is later: later by timestamp, or
\* by sequence number when the timestamps are equal
Later(a, b) ==
    \/ FloatLess(b.TimestampFloat, a.TimestampFloat)
    \/ /\ FloatEq(b.TimestampFloat, a.TimestampFloat)
       /\ b.SequenceNum < a.SequenceNum

\* the sequences the stored frames can be put in
StoredOrders == Perms({allFrames[i] : i \in 1..Len(allFrames)})

\* C18: displayGroupedFrames groups the frames by ID and prints each group
\* in ascending timestamp order, equal timestamps in ascending sequence
\* number order; what it prints does not depend on the order in which the
\* frames were stored.
C18_GroupOrder ==
    shown.done =>
        /\ \A k \in 1..Len(shown.groups) :
              LET g == shown.groups[k] IN
              /\ \A i \in 1..Len(g.frames) : g.frames[i].Frame.ID = g.id
              /\ \A i \in 1..Len(g.frames), j \in 1..Len(g.frames) :
                    i < j => ~Later(g.frames[i], g.frames[j])
        /\ \A k \in 1..Len(shown.groups), l \in 1..Len(shown.groups) :
              k # l => shown.groups[k].id # shown.groups[l].id
        /\ \A stored \in StoredOrders :
              \A idOrder \in Perms({allFrames[i].Frame.ID :
                                      i \in 1..Len(allFrames)}) :
                 displayGroupedFrames(stored, shown.hideAccounted,
                                      shown.hideUnaccounted, idOrder)
                     = shown.groups

\* The same without timestamps that are not numbers: when every stored
\* timestamp is a number, the groups are printed as C18 says.
GroupOrderOfNumbers ==
    (\A i \in 1..Len(allFrames) : ~allFrames[i].TimestampFloat.nan) =>
        C18_GroupOrder

\* C19: a source that cannot be opened contributes no frames and the loop
\* goes on to the remaining paths; once the report is printed every path
\* given has been processed and is listed once, a source that could not be
\* opened with 0 unaccounted / 0 total frames, and every other source's
\* frames have been folded.
C19_UnreadableSource ==
    /\ \A s \in openFailed : s \in DOMAIN fileFrames /\ fileFrames[s] = <<>>
    /\ report.done =>
          /\ fileIdx = Len(filePaths)
          /\ \A i \in 1..Len(filePaths) :
                Cardinality({j \in 1..Len(report.files) :
                                report.files[j].fn = filePaths[i]}) = 1
          /\ \A s \in openFailed :
                \E j \in 1..Len(report.files) :
                   report.files[j] = [fn |-> s, unaccounted |-> 0, total |-> 0]
          /\ \A j \in 1..Len(report.files) :
                LET s == report.files[j].fn IN
                /\ s \in Sources
                /\ report.files[j].total = Len(fileFrames[s])
                /\ report.files[j].unaccounted = Cardinality(UnaccountedAt(s))
          /\ report.totalPatterns = Cardinality(Shapes)

\* the first path could not be opened, a later one held unaccounted frames
C19_Witness ==
    /\ report.done
    /\ filePaths[1] \in openFailed
    /\ Len(report.files) = 3
    /\ report.totalPatterns >= 2

\* C20: when a message is decoded after at least one START frame, it
\* carries the ID of the most recent START frame and a frame count of 1 +
\* the number of CONTINUATION frames absorbed since that START frame (the
\* frame that completed it included); without -group-by-id the message
\* line printed carries both.
C20_MessageOrigin ==
    (decodeErr = "nil" /\ runStarted) =>
        /\ pre.id = runStartID
        /\ pre.fc = 1 + runConts
        /\ ~groupByID =>
              /\ Events("message") # {}
              /\ \A i \in Events("message") :
                    /\ out[i].canId = runStartID
                    /\ out[i].frames = 1 + runConts

\* a message completed by a CONTINUATION frame whose ID differs from the
\* START frame's
C20_Witness ==
    /\ decodeErr = "nil"
    /\ runStarted
    /\ frameType = "CONT"
    /\ frame.ID # runStartID
    /\ \E i \in Events("message") : out[i].frames = 2 /\ out[i].canId = runStartID

(***************************************************************************)
(* Error handling of the frame loop.                                       *)
(***************************************************************************)
\* the lines of an iteration that report a problem: the only one the loop
\* prints is "Discarding incomplete buffer"
Diagnostics(lines) ==
    {i \in 1..Len(lines) : lines[i].ev \in {"discard", "desync", "malformed"}}

\* C21: a CONTINUATION frame processed while no message is active (the
\* buffer is empty) and a START frame processed while the buffer is not
\* empty are each reported by a diagnostic line, and the frame is processed
\* all the same.
C21_DesyncReported ==
    [][(\/ frameType' = "CONT" /\ cborBuffer = <<>>
        \/ frameType' = "START" /\ cborBuffer # <<>>) =>
          /\ Diagnostics(out') # {}
          /\ totalFramesProcessed' = totalFramesProcessed + 1]_vars

\* The part of C21 that the loop keeps: without -group-by-id a START frame
\* that finds bytes in the buffer reports them, and neither condition stops
\* the loop (the frame is absorbed and counted).
DesyncProcessed ==
    [][(\/ frameType' = "CONT" /\ cborBuffer = <<>>
        \/ frameType' = "START" /\ cborBuffer # <<>>) =>
          /\ (frameType' = "START" /\ ~groupByID) => Diagnostics(out') # {}
          /\ totalFramesProcessed' = totalFramesProcessed + 1
          /\ pre'.buf = (IF frameType' = "START" THEN <<>> ELSE cborBuffer)
                            \o Tail(frame'.Data)]_vars

\* C22: a decode attempt that fails with a structural error (not for want
\* of bytes) is reported by a diagnostic line and empties the buffer, so
\* the bytes are not handed to the codec again.
C22_MalformedDropped ==
    decodeErr = "syntax" =>
        /\ cborBuffer = <<>>
        /\ Diagnostics(out) # {}

\* What the loop does instead: the bytes that failed stay in the buffer and
\* are the start of what the next CONTINUATION frame hands to the codec.
MalformedKept ==
    [][(decodeErr = "syntax" /\ frameType' = "CONT") =>
          /\ cborBuffer = pre.buf
          /\ pre'.buf = pre.buf \o Tail(frame'.Data)
          /\ decodeErr' = "syntax"]_vars

(***************************************************************************)
(* Properties of ingestion.                                                *)
(***************************************************************************)
HasData(r) == Len(r.Data) > 0

\* the frames of a list of stored frames, in the order stored
FramesOf(stored) == [i \in 1..Len(stored) |-> stored[i].Frame]

\* C23: a record that yields no frame, or a frame without data, is dropped
\* before classification.  Read by main it gets no kind, is not counted as
\* processed, is not stored, and the buffer, the frame count, the
\* originating ID and the counters stay as they are; read by processFile it
\* is not stored and takes no sequence number (the frames stored are the
\* records with data, numbered as if the others were not there).
C23_DroppedRecords ==
    [][/\ (~compareMode /\ Len(frame'.Data) = 0) =>
             /\ frameType' = ""
             /\ UNCHANGED <<totalFramesProcessed, allFrames, cborBuffer,
                            frameCount, lastCanID, cborMessageCount,
                            heartbeatCount>>
       /\ (compareMode /\ fileIdx' = fileIdx + 1) =>
             LET stored == fileFrames'[filePaths[fileIdx']]
                 kept == SelectSeq(fileRecords', HasData)
             IN  /\ FramesOf(stored) = kept
                 /\ \A i \in 1..Len(stored) : stored[i].SequenceNum = i
                 /\ UNCHANGED <<totalFramesProcessed, allFrames, cborBuffer,
                                frameCount, lastCanID, cborMessageCount,
                                heartbeatCount>>]_vars

\* main dropped a frame without data after it had stored a heartbeat
C23_Witness ==
    /\ ~compareMode
    /\ frame = [ID |-> ID_OTHER, Data |-> <<>>]
    /\ frameType = ""
    /\ totalFramesProcessed = 1
    /\ Len(allFrames) = 1
    /\ heartbeatCount = 1

\* processFile dropped a line without frame and a frame without data that
\* lie between two frames it stored
DroppedBetweenStored ==
    /\ compareMode
    /\ fileIdx = 1
    /\ Len(fileRecords) = 3
    /\ ~HasData(fileRecords[2])
    /\ Len(fileFrames[filePaths[1]]) = 2

\* C24: the sequence numbers of the frames stored from one source are 1, 2,
\* 3, ... in the order the frames were read (main with -group-by-id, and
\* each processFile call of compare mode, which starts again at 1 whatever
\* the other sources hold).
C24_SequenceNumbers ==
    /\ \A i \in 1..Len(allFrames) : allFrames[i].SequenceNum = i
    /\ (Len(allFrames) > 0 /\ frameType # "") =>
           allFrames[Len(allFrames)].Frame = frame
    /\ \A s \in DOMAIN fileFrames :
          \A i \in 1..Len(fileFrames[s]) : fileFrames[s][i].SequenceNum = i
    /\ (compareMode /\ fileIdx > 0) =>
           FramesOf(fileFrames[filePaths[fileIdx]])
               = SelectSeq(fileRecords, HasData)

\* two sources: the first holds two frames, numbered 1 and 2, the second
\* one frame, numbered 1
C24_Witness ==
    /\ compareMode
    /\ fileIdx = 2
    /\ filePaths[1] # filePaths[2]
    /\ Len(fileFrames[filePaths[1]]) = 2
    /\ fileFrames[filePaths[1]][2].SequenceNum = 2
    /\ Len(fileRecords) = 1
    /\ Len(fileFrames[filePaths[2]]) = 1
    /\ fileFrames[filePaths[2]][1].SequenceNum = 1

(***************************************************************************)
(* Properties of the views of the grouped display.                         *)
(***************************************************************************)
\* a stored frame that is CBOR-bearing or a heartbeat
Accounted(fi) == fi.IsCBOR \/ fi.IsHeartbeat

\* the stored frames of one ID
GroupFrames(id) ==
    {allFrames[i] : i \in {i \in 1..Len(allFrames) : allFrames[i].Frame.ID = id}}

\* the frames printed under one ID, as a sequence (empty when the display
\* has no group of that ID)
PrintedUnder(id) ==
    LET ks == {k \in 1..Len(shown.groups) : shown.groups[k].id = id}
    IN  IF ks = {} THEN <<>> ELSE shown.groups[CHOOSE k \in ks : TRUE].frames

\* the frames of the sequence, as a set
Range(q) == {q[i] : i \in 1..Len(q)}

NoRepeat(q) == \A i \in 1..Len(q), j \in 1..Len(q) : q[i] = q[j] => i = j

\* the IDs of the stored frames
StoredIDs == {allFrames[i].Frame.ID : i \in 1..Len(allFrames)}

\* C25: with hideAccounted set the frames printed for a group are exactly
\* the group's frames that are neither CBOR nor heartbeat, with
\* hideUnaccounted set exactly its CBOR or heartbeat frames, with neither
\* set all its frames, each frame once; a group whose filtered list is
\* empty is not printed at all.
C25_Views ==
    shown.done =>
        /\ \A id \in StoredIDs :
              LET printed == PrintedUnder(id) IN
              /\ NoRepeat(printed)
              /\ shown.hideAccounted =>
                    Range(printed) = {f \in GroupFrames(id) : ~Accounted(f)}
              /\ shown.hideUnaccounted =>
                    Range(printed) = {f \in GroupFrames(id) : Accounted(f)}
              /\ (~shown.hideAccounted /\ ~shown.hideUnaccounted) =>
                    Range(printed) = GroupFrames(id)
        /\ \A k \in 1..Len(shown.groups) :
              /\ shown.groups[k].id \in StoredIDs
              /\ Len(shown.groups[k].frames) > 0
              /\ \A l \in 1..Len(shown.groups) :
                    shown.groups[k].id = shown.groups[l].id => k = l

\* The same for a display that runs with at most one of the two flags: the
\* views are as C25 says.
ViewsOfOneFlag ==
    ~(shown.hideAccounted /\ shown.hideUnaccounted) => C25_Views

\* a display with hideAccounted alone that printed the unaccounted frame of
\* one group and left out a group holding accounted frames only
OneFlagView ==
    /\ shown.done
    /\ shown.hideAccounted /\ ~shown.hideUnaccounted
    /\ Len(shown.groups) = 1
    /\ Cardinality(StoredIDs) = 2
    /\ Cardinality(GroupFrames(shown.groups[1].id)) = 2
    /\ Len(shown.groups[1].frames) = 1

\* C26: the grouped display never runs with both hideAccounted and
\* hideUnaccounted in effect.
C26_ViewsExclusive ==
    shown.done => ~(shown.hideAccounted /\ shown.hideUnaccounted)

\* What the display prints when both flags are given: no group at all.
BothFlagsPrintNothing ==
    (shown.done /\ shown.hideAccounted /\ shown.hideUnaccounted) =>
        shown.groups = <<>>

(***************************************************************************)
(* Properties of the per-source summary and of the command line of compare *)
(* mode.                                                                   *)
(***************************************************************************)
\* the occurrences of source s summed over the patterns of the report
OccurrencesOf(s) ==
    SumOf([k \in DOMAIN report.patterns |->
              IF s \in DOMAIN report.patterns[k].Occurrences
              THEN report.patterns[k].Occurrences[s] ELSE 0])

\* C27: the report has one "Files analyzed" line per source; its
\* unaccounted count is the number of the source's frames that are neither
\* CBOR nor heartbeat, its total the number of the source's stored frames,
\* and the unaccounted count is the sum of the source's occurrence counts
\* over all patterns.
C27_FileSummary ==
    report.done =>
        /\ Len(report.files) = Cardinality(Sources)
        /\ {report.files[i].fn : i \in 1..Len(report.files)} = Sources
        /\ \A i \in 1..Len(report.files) :
              LET line == report.files[i] IN
              /\ line.unaccounted = Cardinality(UnaccountedAt(line.fn))
              /\ line.total = Len(fileFrames[line.fn])
              /\ line.unaccounted = OccurrencesOf(line.fn)

\* a source of three frames, one of them a heartbeat and two unaccounted
\* frames of different patterns
C27_Witness ==
    /\ report.done
    /\ \E i \in 1..Len(report.files) :
          /\ report.files[i].total = 3
          /\ report.files[i].unaccounted = 2
          /\ \E j \in 1..3 : fileFrames[report.files[i].fn][j].IsHeartbeat
          /\ Cardinality(DOMAIN report.patterns) = 2

\* the paths given on the command line, as a set
GivenPaths == {filePaths[i] : i \in 1..Len(filePaths)}

\* nothing was read: no path processed, no line of standard input
NothingRead ==
    /\ fileIdx = 0
    /\ fileFrames = EmptyMap
    /\ fileRecords = <<>>
    /\ ~report.done
    /\ totalFramesProcessed = 0
    /\ frame = NilFrame
    /\ allFrames = <<>>

\* C28 as stated: with fewer than 2 paths compare mode ends with the usage
\* error and a failure status, nothing read; with 2 or more paths every
\* path is processed and the comparison runs on at least 2 distinct
\* sources.
C28_AsStated ==
    compareMode =>
        /\ Len(filePaths) < 2 => (exited \in {"no", "os.Exit(1)"} /\ NothingRead)
        /\ Len(filePaths) >= 2 => exited # "os.Exit(1)"
        /\ report.done =>
              /\ fileIdx = Len(filePaths)
              /\ Sources = GivenPaths
              /\ Cardinality(Sources) >= 2

\* C28 amended: ... with 2 or more paths every path is processed and the
\* comparison runs on one source per distinct path: at least 2 sources
\* when two of the paths differ, a single source when all paths are the
\* same.
C28_CompareArguments ==
    compareMode =>
        /\ Len(filePaths) < 2 => (exited \in {"no", "os.Exit(1)"} /\ NothingRead)
        /\ Len(filePaths) >= 2 => exited # "os.Exit(1)"
        /\ report.done =>
              /\ fileIdx = Len(filePaths)
              /\ Sources = GivenPaths
              /\ Len(report.files) = Cardinality(GivenPaths)
              /\ Cardinality(Sources) >= 1
              /\ (\E i \in 1..Len(filePaths) : filePaths[i] # filePaths[1])
                    => Cardinality(Sources) >= 2

\* compare mode with one path ended with the usage error
C28_Witness ==
    /\ compareMode
    /\ Len(filePaths) = 1
    /\ exited = "os.Exit(1)"
    /\ NothingRead

\* a comparison of two paths that ran on a single source
TwoPathsOneSource ==
    /\ report.done
    /\ Len(filePaths) = 2
    /\ Cardinality(Sources) = 1
    /\ exited = "return"

(***************************************************************************)
(* Properties of the single message and of the two heartbeat tests.        *)
(***************************************************************************)
\* C29: there is one buffer, whatever the IDs of the frames: a
\* CONTINUATION frame is appended to it and leaves the originating ID as it
\* is, also when its own ID differs; the originating ID is the ID of the
\* most recent START frame, and it is the ID a message is reported with.
C29_SingleMessage ==
    [][frameType' \in {"START", "CONT"} =>
          /\ frameType' = "CONT" =>
                /\ pre'.buf = cborBuffer \o Tail(frame'.Data)
                /\ lastCanID' = lastCanID
          /\ frameType' = "START" => lastCanID' = frame'.ID
          /\ runStarted' => lastCanID' = runStartID'
          /\ \A i \in 1..Len(out') :
                out'[i].ev = "message" => out'[i].canId = lastCanID']_vars

\* a CONTINUATION frame of another ID whose payload joined the START
\* frame's payload in the buffer, the item still incomplete
C29_Witness ==
    /\ frameType = "CONT"
    /\ runStarted
    /\ frame.ID # runStartID
    /\ lastCanID = runStartID
    /\ runConts = 1
    /\ decodeErr = "eof"
    /\ Len(cborBuffer) = 2
    /\ cborBuffer = runPayload

\* C30: for every frame, analyzeRawFrame returns the same heartbeat result
\* as checkIfHeartbeat, with the verbose flag set and with it clear.
C30_SameHeartbeatResult ==
    (hbOut # "none" /\ arOut.called) =>
        (arOut.isHeartbeat <=> hbOut = "true")

\* both functions called on an all-zero frame with the ID prefix,
\* analyzeRawFrame without the verbose flag
C30_Witness ==
    /\ hbOut = "true"
    /\ arOut.called
    /\ ~arOut.verbose
    /\ arOut.isHeartbeat
    /\ Len(hbIn.Data) >= 2

\* both called on the telemetry ID, which analyzeRawFrame's switch takes
\* before the prefix test
TelemetryNotHeartbeat ==
    /\ hbIn.ID = ID_TELEMETRY
    /\ hbIn.Data = <<0, 0>>
    /\ hbOut = "false"
    /\ arOut.called
    /\ arOut.verbose
    /\ ~arOut.isHeartbeat

(***************************************************************************)
(* The two loop bodies of main as functions of the reassembly state: the   *)
(* buffer, the frame count, the originating CAN ID and the two counters.   *)
(***************************************************************************)
Reassembly ==
    [buf |-> cborBuffer, id |-> lastCanID, fc |-> frameCount,
     msgs |-> cborMessageCount, hbs |-> heartbeatCount]

\* faulty variant: with -group-by-id a frame that is not START or CONT is
\* never counted as a heartbeat
groupByIDPathNoHeartbeat(s, f) ==
    LET header == f.Data[1]
        c == Classify(f)
        m0 == [buf |-> s.buf, id |-> s.id, fc |-> s.fc]
        m == IF isStartFrame(header) THEN AbsorbStart(m0, f)
             ELSE IF isContinuation(header) THEN AbsorbCont(m0, f)
             ELSE m0
        d == IF c.isCBOR THEN TryDecode(m.buf) ELSE TryDecode(<<>>)
    IN  [buf |-> IF c.isCBOR THEN d.rest ELSE m.buf,
         id |-> m.id,
         fc |-> m.fc,
         msgs |-> s.msgs + (IF d.err = "nil" THEN 1 ELSE 0),
         hbs |-> s.hbs]

\* "Skip immediate display if grouping": if *groupByID { ... continue }
groupByIDPath(s, f) ==
    LET header == f.Data[1]
        c == Classify(f)
        m0 == [buf |-> s.buf, id |-> s.id, fc |-> s.fc]
        m == IF isStartFrame(header) THEN AbsorbStart(m0, f)
             ELSE IF isContinuation(header) THEN AbsorbCont(m0, f)
             ELSE m0
        \* if isCBOR && len(cborBuffer) > 0 { ... dec.Decode(&item) ... }
        d == IF c.isCBOR THEN TryDecode(m.buf) ELSE TryDecode(<<>>)
    IN  [buf |-> IF c.isCBOR THEN d.rest ELSE m.buf,
         id |-> m.id,
         fc |-> m.fc,
         msgs |-> s.msgs + (IF d.err = "nil" THEN 1 ELSE 0),
         hbs |-> s.hbs + (IF c.isHeartbeat THEN 1 ELSE 0)]

\* faulty variant: every frame under the heartbeat ID prefix is counted as a
\* heartbeat, START and CONTINUATION frames included
displayPathHeartbeatByID(s, f, showVerbose) ==
    LET header == f.Data[1]
        m0 == [buf |-> s.buf, id |-> s.id, fc |-> s.fc]
        m == IF isStartFrame(header) THEN AbsorbStart(m0, f)
             ELSE IF isContinuation(header) THEN AbsorbCont(m0, f)
             ELSE m0
        d == IF isStartFrame(header) \/ isContinuation(header)
             THEN TryDecode(m.buf) ELSE TryDecode(<<>>)
    IN  [buf |-> IF d.err = "none" THEN m.buf ELSE d.rest,
         id |-> m.id,
         fc |-> m.fc,
         msgs |-> s.msgs + (IF d.err = "nil" THEN 1 ELSE 0),
         hbs |-> s.hbs + (IF HasPrefix(f.ID, HB_PREFIX) THEN 1 ELSE 0)]

\* "VANMOOF FRAMING LOGIC" and "Try to decode CBOR from the accumulated
\* buffer"; showVerbose is what the flags make of it
displayPath(s, f, showVerbose) ==
    LET header == f.Data[1]
        m0 == [buf |-> s.buf, id |-> s.id, fc |-> s.fc]
    IN
    IF isStartFrame(header) \/ isContinuation(header)
    THEN LET m == IF isStartFrame(header) THEN AbsorbStart(m0, f)
                  ELSE AbsorbCont(m0, f)
             d == TryDecode(m.buf)
         IN  [buf |-> d.rest,
              id |-> m.id,
              fc |-> m.fc,
              msgs |-> s.msgs + (IF d.err = "nil" THEN 1 ELSE 0),
              hbs |-> s.hbs]
    ELSE [s EXCEPT !.hbs =
              @ + (IF analyzeRawFrame(f, showVerbose).isHeartbeat
                   THEN 1 ELSE 0)]

(***************************************************************************)
(* C31: for any sequence of input frames, the -group-by-id path and the    *)
(* immediate-display path reach the same reassembly state after each       *)
(* frame: the same buffer, frame count, originating CAN ID, decoded-       *)
(* message count and heartbeat count.  Both runs start from the same       *)
(* state; every iteration that processes a frame, whichever path the run   *)
(* takes, leaves the reassembly state that the -group-by-id path computes  *)
(* from the state before and the frame, and the state that the display     *)
(* path computes from them under either value of showVerbose.              *)
(***************************************************************************)
C31_SamePathState ==
    [][totalFramesProcessed' = totalFramesProcessed + 1 =>
          /\ Reassembly' = groupByIDPath(Reassembly, frame')
          /\ \A showVerbose \in BOOLEAN :
                Reassembly' = displayPath(Reassembly, frame', showVerbose)]_vars

\* with -group-by-id a START frame and a CONTINUATION frame have been
\* processed, the second completing a message of two frames
C31_Witness ==
    /\ groupByID
    /\ totalFramesProcessed = 2
    /\ frameCount = 2
    /\ cborMessageCount = 1
    /\ frameType = "CONT"

\* without -group-by-id a message has been decoded and a heartbeat counted
DisplayPathCounts ==
    /\ ~groupByID
    /\ cborMessageCount = 1
    /\ heartbeatCount = 1

(***************************************************************************)
(* Properties of the stored classified frames.                             *)
(***************************************************************************)
\* the frames stored by main with -group-by-id and by processFile
StoredFrameInfos ==
    {allFrames[i] : i \in 1..Len(allFrames)}
        \cup UNION {{fileFrames[s][i] : i \in 1..Len(fileFrames[s])} :
                       s \in DOMAIN fileFrames}

\* C32: every stored classified frame satisfies: IsCBOR and IsHeartbeat are
\* never both true; FrameType is START or CONT iff IsCBOR, HEARTBEAT iff
\* IsHeartbeat and UNACCOUNTED iff neither; Header equals the first data
\* byte; a frame classified HEARTBEAT has header byte 0x00.
C32_StoredFrames ==
    \A fi \in StoredFrameInfos :
        /\ ~(fi.IsCBOR /\ fi.IsHeartbeat)
        /\ fi.FrameType \in {"START", "CONT"} <=> fi.IsCBOR
        /\ fi.FrameType = "HEARTBEAT" <=> fi.IsHeartbeat
        /\ fi.FrameType = "UNACCOUNTED" <=> (~fi.IsCBOR /\ ~fi.IsHeartbeat)
        /\ fi.Header = fi.Frame.Data[1]
        /\ fi.FrameType = "HEARTBEAT" => fi.Header = 0

\* processFile stored a heartbeat, an unaccounted frame and a CONTINUATION
\* frame that carries the heartbeat ID
C32_Witness ==
    /\ compareMode
    /\ fileIdx = 1
    /\ LET stored == fileFrames[filePaths[1]] IN
       /\ Len(stored) = 3
       /\ stored[1].FrameType = "HEARTBEAT"
       /\ stored[2].FrameType = "UNACCOUNTED"
       /\ stored[3].FrameType = "CONT"
       /\ HasPrefix(stored[3].Frame.ID, HB_PREFIX)

\* main stored a START frame and a frame under the heartbeat ID whose header
\* byte is not zero, an unaccounted frame
StoredByMain ==
    /\ ~compareMode
    /\ Len(allFrames) = 2
    /\ allFrames[1].FrameType = "START"
    /\ allFrames[2].FrameType = "UNACCOUNTED"
    /\ HasPrefix(allFrames[2].Frame.ID, HB_PREFIX)
    /\ allFrames[2].Header # 0

(***************************************************************************)
(* Properties of the buffer retained after a frame.                        *)
(***************************************************************************)
\* the number of complete data items the bytes of buf start with, one
\* after the other
RECURSIVE CompleteValues(_)
CompleteValues(buf) ==
    IF Len(buf) = 0 THEN 0
    ELSE LET n == ItemLen(buf) IN
         IF n <= 0 THEN 0
         ELSE 1 + CompleteValues(SubSeq(buf, n + 1, Len(buf)))

\* C33: after the processing of any frame completes, the retained buffer
\* does not begin with a complete decodable value: every complete value
\* present in the buffer has been emitted by the end of the step in which
\* its last byte arrived.  (pre.buf is the buffer of that step once the
\* frame has been absorbed; a step emits one message when its decode
\* succeeds, none otherwise.)
C33_CompleteValuesEmitted ==
    /\ Len(cborBuffer) > 0 => Decode(cborBuffer) # "nil"
    /\ frameType \in {"START", "CONT"} =>
           CompleteValues(pre.buf) = (IF decodeErr = "nil" THEN 1 ELSE 0)

\* the first half alone: the retained buffer does not begin with a complete
\* decodable value
RetainedNotDecodable ==
    Len(cborBuffer) > 0 => Decode(cborBuffer) # "nil"

\* a frame brought two complete values and the buffer is empty after it
\* with one message counted
SecondValueDropped ==
    /\ frameType = "START"
    /\ CompleteValues(pre.buf) = 2
    /\ cborMessageCount = 1
    /\ cborBuffer = <<>>

(***************************************************************************)
(* A single-source run to its end: the loop of main over the lines of      *)
(* standard input with their timestamps, then "Display capture summary".   *)
(* The lines printed per frame and the list of stored frames are not kept  *)
(* in this specification (ProcessFrame and StoreFrame keep them).          *)
(***************************************************************************)
\* the timestamp fields of the lines read here (CSV, in microseconds)
SummaryTimestamps ==
    {<<>>, <<"0">>, <<"1", "0", "0", "0", "0", "0", "0">>, <<"N", "a", "N">>}

\* the frames of the lines read here: a START frame under the heartbeat ID
\* that holds a complete value, a START frame that holds the head of an
\* array, a CONTINUATION frame, a heartbeat and an unaccounted frame
SummaryFrames ==
    {[ID |-> ID_HB, Data |-> <<160, 0>>],
     [ID |-> ID_OTHER, Data |-> <<160, 130>>],
     [ID |-> ID_OTHER, Data |-> <<24, 0>>],
     [ID |-> ID_HB, Data |-> <<0>>],
     [ID |-> ID_OTHER, Data |-> <<130>>]}

\* "Track capture timestamps"
TrackTimestamps(timestamp, isCSV) ==
    IF timestamp # <<>> /\ ~ParseFloat(timestamp).err
    THEN LET timestampFloat == timestampFloatOf(timestamp, isCSV) IN
         /\ minTimestamp' = IF FloatLess(timestampFloat, minTimestamp)
                            THEN timestampFloat ELSE minTimestamp
         /\ maxTimestamp' = IF FloatLess(maxTimestamp, timestampFloat)
                            THEN timestampFloat ELSE maxTimestamp
         /\ captureStarted' = TRUE
    ELSE UNCHANGED <<minTimestamp, maxTimestamp, captureStarted>>

\* one iteration of main on a line that holds a frame with data, with or
\* without -group-by-id
ReadFrame(f, timestamp) ==
    /\ ~summary.done
    /\ Len(f.Data) > 0
    /\ totalFramesProcessed < MaxFrames
    /\ totalFramesProcessed' = totalFramesProcessed + 1
    /\ TrackTimestamps(timestamp, TRUE)
    /\ frame' = f
    /\ frameType' = Classify(f).frameType
    /\ unaccountedSeen' =
           unaccountedSeen
           + (IF Classify(f).frameType = "UNACCOUNTED" THEN 1 ELSE 0)
    /\ \E showVerbose \in BOOLEAN :
          \E s \in {IF groupByID THEN groupByIDPath(Reassembly, f)
                    ELSE displayPath(Reassembly, f, showVerbose)} :
             /\ cborBuffer' = s.buf
             /\ lastCanID' = s.id
             /\ frameCount' = s.fc
             /\ cborMessageCount' = s.msgs
             /\ heartbeatCount' = s.hbs
    /\ UNCHANGED <<groupByID, pre, decodeErr, out, runStarted, runStartID,
                   runPure, runPayload, runConts, runRemoved, runDecoded,
                   runTrailingEmpty, runMsgs, runMsgFrames, hbIn, hbOut,
                   arOut, cmpVars, grpVars, summary>>

\* unaccountedFrames := totalFramesProcessed - cborMessageCount -
\* heartbeatCount; if unaccountedFrames < 0 { unaccountedFrames = 0 }
unaccountedFrames ==
    LET n == totalFramesProcessed - cborMessageCount - heartbeatCount
    IN  IF n < 0 THEN 0 ELSE n

\* "Display capture summary", after the last line
CaptureSummary ==
    /\ ~summary.done
    /\ summary' =
           IF captureStarted /\ FloatLess(minTimestamp, maxTimestamp)
           THEN [done |-> TRUE, printed |-> TRUE,
                 cborMessages |-> cborMessageCount,
                 heartbeats |-> heartbeatCount,
                 unaccountedFrames |-> unaccountedFrames,
                 totalFrames |-> totalFramesProcessed]
           ELSE [NoSummary EXCEPT !.done = TRUE]
    /\ UNCHANGED <<mainVars, hbIn, hbOut, arOut, cmpVars, grpVars,
                   minTimestamp, maxTimestamp, captureStarted,
                   unaccountedSeen>>

NextSummary ==
    \/ \E r \in EmptyFrames \cup {NilFrame} : ~summary.done /\ SkipRecord(r)
    \/ \E f \in SummaryFrames, timestamp \in SummaryTimestamps :
          ReadFrame(f, timestamp)
    \/ CaptureSummary

SpecSummary == Init /\ [][NextSummary]_vars

(***************************************************************************)
(* Properties of the capture summary.                                      *)
(***************************************************************************)
\* C34: in the capture summary of a single-source run, the reported
\* "Unaccounted Frames" number equals the number of processed frames that
\* were classified UNACCOUNTED.
C34_UnaccountedReported ==
    summary.printed => summary.unaccountedFrames = unaccountedSeen

\* what the summary reports: the processed frames less the decoded messages
\* and the heartbeats
UnaccountedAsComputed ==
    summary.printed =>
        summary.unaccountedFrames
            = summary.totalFrames - summary.cborMessages - summary.heartbeats

\* a START frame whose value is incomplete and a CONTINUATION frame that
\* does not complete it: the summary reports two unaccounted frames, no
\* frame was classified UNACCOUNTED
CborFramesReported ==
    /\ summary.printed
    /\ summary.totalFrames = 2
    /\ summary.cborMessages = 0
    /\ summary.unaccountedFrames = 2
    /\ unaccountedSeen = 0
    /\ frameType = "CONT"

\* C35: in every reachable state of a single-source run the decoded
\* messages and the heartbeats together are no more than the frames
\* processed (a frame adds at most one to the two counters together), so
\* the clamp of the summary's unaccounted count to zero never takes effect.
C35_ClampNeverTakesEffect ==
    /\ cborMessageCount + heartbeatCount <= totalFramesProcessed
    /\ summary.printed =>
           summary.unaccountedFrames
               = summary.totalFrames - summary.cborMessages
                 - summary.heartbeats

\* the summary of a run in which every frame is accounted for: a decoded
\* message of one frame and a heartbeat, zero unaccounted frames without
\* the clamp
C35_Witness ==
    /\ summary.printed
    /\ summary.totalFrames = 2
    /\ summary.cborMessages = 1
    /\ summary.heartbeats = 1
    /\ summary.unaccountedFrames = 0

====
